---- MODULE Spec2Model ----
(***************************************************************************)
(* Model of the iterative refinement engine of MAS_writer:                 *)
(*   - parse_scorecard / _clean_kill_list  (router_agent_orchestrator.py)  *)
(*   - extract_scorecard                   (gemini_utils.py)               *)
(*   - run_refinement_loop, mock variant   (router_agent_orchestrator.py)  *)
(*   - run_refinement_loop, live variant   (live_agent_orchestrator.py)    *)
(*   - DSStarOrchestrator.run with ExecutionEngine.execute_script and the  *)
(*     Planner, Verifier and Router it drives       (ds_star_agent.py)     *)
(*                                                                         *)
(* Specifications: Spec (run_refinement_loop), SpecParse (the two          *)
(* parsers on bounded texts), SpecRoundTrip (format, then parse),          *)
(* SpecDS (DSStarOrchestrator.run), SpecPlanner (the operations of one     *)
(* PlannerAgent in any sequence), SpecSessions (two orchestrator           *)
(* instances, rounds interleaved), SpecRetry (one call of                  *)
(* call_gemini_with_retry of gemini_utils.py) and SpecRetryLive (the same  *)
(* with weak fairness of its steps).                                       *)
(*                                                                         *)
(* Texts are finite sequences of lexemes (tokens).  A token stands for the *)
(* literal text of its name: the two markers, the words REJECTED / YES /   *)
(* NO, the key Previous_Kill_List_Fixed, single punctuation characters,    *)
(* single whitespace characters, quoted JSON strings, a number literal,    *)
(* and "A." for a capital letter followed by a period.  Every operator on  *)
(* texts below is the token-level image of the Python string operation it  *)
(* is named after.                                                         *)
(***************************************************************************)
EXTENDS Integers, Sequences, FiniteSets, TLC

(***************************************************************************)
(* Bounds of the exploration.                                              *)
(***************************************************************************)
\* largest round budget (max_iterations) a session is started with
MaxIterBound == 3
\* longest text of the exhaustive part of the parser inputs
MaxTextLen == 3

(***************************************************************************)
(* Tokens.                                                                 *)
(***************************************************************************)
START_MARKER == "**REVIEWER_SCORECARD**"
START_MARKER_LOWER == "**reviewer_scorecard**"
END_MARKER == "**END_SCORECARD**"
END_MARKER_LOWER == "**end_scorecard**"
KEY_FIXED == "Previous_Kill_List_Fixed"
KEY_ADK == "ADK_Architecture_Compliant"
KEY_LEAN == "Lean_Plan_Table_Present"
Q_KEY_FIXED == "\"Previous_Kill_List_Fixed\""
Q_YES == "\"YES\""
Q_NO == "\"NO\""
SP == " "
NL == "\n"
HDR == "A."

\* a value that is not a str (None) handed to the parser
NoneValue == <<"<None>">>

IsStr(x) == x # NoneValue

\* str.upper() on one token
Upper(t) ==
    CASE t = START_MARKER_LOWER -> START_MARKER
      [] t = END_MARKER_LOWER -> END_MARKER
      [] t = "rejected" -> "REJECTED"
      [] t = "yes" -> "YES"
      [] t = "text" -> "TEXT"
      [] t = "sufficient" -> "SUFFICIENT"
      [] t = "insufficient" -> "INSUFFICIENT"
      [] t = "correct" -> "CORRECT"
      [] t = "remove" -> "REMOVE"
      [] t = "reviewer_scorecard" -> "REVIEWER_SCORECARD"
      [] t = "end_scorecard" -> "END_SCORECARD"
      [] t = KEY_FIXED -> "PREVIOUS_KILL_LIST_FIXED"
      [] t = KEY_ADK -> "ADK_ARCHITECTURE_COMPLIANT"
      [] t = KEY_LEAN -> "LEAN_PLAN_TABLE_PRESENT"
      [] t = Q_KEY_FIXED -> "\"PREVIOUS_KILL_LIST_FIXED\""
      [] OTHER -> t

\* str.upper() on a text
UpperText(s) == [i \in 1..Len(s) |-> Upper(s[i])]

\* characters str.strip() and the regex class \s remove / match
IsSpace(t) == t \in {SP, NL}

\* re.search(start_pattern, ., re.IGNORECASE) matches at this token
IsStartMarker(t) == Upper(t) = START_MARKER

\* re.search(end_pattern, ., re.IGNORECASE) matches at this token
IsEndMarker(t) == Upper(t) = END_MARKER

\* s[i:] for a 1-based position i (the text from position i on)
Suffix(s, i) == IF i > Len(s) THEN <<>> ELSE SubSeq(s, i, Len(s))

\* index of the first non-whitespace token at or after i, Len(s)+1 if none
RECURSIVE SkipWs(_, _)
SkipWs(s, i) ==
    IF i > Len(s) THEN Len(s) + 1
    ELSE IF IsSpace(s[i]) THEN SkipWs(s, i + 1) ELSE i

\* index of the last non-whitespace token at or before i, 0 if none
RECURSIVE SkipWsBack(_, _)
SkipWsBack(s, i) ==
    IF i < 1 THEN 0
    ELSE IF IsSpace(s[i]) THEN SkipWsBack(s, i - 1) ELSE i

\* str.strip()
Strip(s) ==
    LET a == SkipWs(s, 1)
        b == SkipWsBack(s, Len(s))
    IN  IF a > b THEN <<>> ELSE SubSeq(s, a, b)

\* index of the first token at or after i that is in the set ts, 0 if none
RECURSIVE IndexOf(_, _, _)
IndexOf(s, ts, i) ==
    IF i > Len(s) THEN 0
    ELSE IF s[i] \in ts THEN i ELSE IndexOf(s, ts, i + 1)

\* FindStart with a pattern so lax that it also matches the end marker
RECURSIVE FindStartOrEnd(_, _)
FindStartOrEnd(s, i) ==
    IF i > Len(s) THEN 0
    ELSE IF IsStartMarker(s[i]) \/ IsEndMarker(s[i]) THEN i
    ELSE FindStartOrEnd(s, i + 1)

\* position of the first start marker (re.search), 0 if none
RECURSIVE FindStart(_, _)
FindStart(s, i) ==
    IF i > Len(s) THEN 0
    ELSE IF IsStartMarker(s[i]) THEN i ELSE FindStart(s, i + 1)

\* FindEnd with a pattern so lax that it also matches the start marker
RECURSIVE FindEndOrStart(_, _)
FindEndOrStart(s, i) ==
    IF i > Len(s) THEN 0
    ELSE IF IsEndMarker(s[i]) \/ IsStartMarker(s[i]) THEN i
    ELSE FindEndOrStart(s, i + 1)

\* position of the first end marker at or after i (re.search), 0 if none
RECURSIVE FindEnd(_, _)
FindEnd(s, i) ==
    IF i > Len(s) THEN 0
    ELSE IF IsEndMarker(s[i]) THEN i ELSE FindEnd(s, i + 1)

\* "REJECTED" in text.upper()
ContainsRejected(s) == \E i \in 1..Len(s) : Upper(s[i]) = "REJECTED"


(***************************************************************************)
(* Field maps (Python dict).  A value is tagged with its Python type: the  *)
(* line-oriented path only produces str values, json.loads can produce     *)
(* any JSON type.                                                          *)
(***************************************************************************)
StrVal(s) == [type |-> "str", v |-> s]
NonStrVal(ty) == [type |-> ty, v |-> <<>>]

\* {}
EmptyDict == [k \in {} |-> StrVal(<<>>)]

\* d[k] = v
DictSet(d, k, v) == [x \in (DOMAIN d) \cup {k} |-> IF x = k THEN v ELSE d[x]]

\* d.get(k, default)
DictGet(d, k, default) == IF k \in DOMAIN d THEN d[k] ELSE default

(***************************************************************************)
(* json.loads on a token text.  Grammar: value = string | number | object  *)
(* | array; whitespace is allowed between lexemes; a number is a run of    *)
(* digit tokens; duplicate member names keep the last value.               *)
(***************************************************************************)
QuotedStrings == {Q_KEY_FIXED, Q_YES, Q_NO}

\* the text between the quotes of a JSON string token
Unquote(t) ==
    CASE t = Q_KEY_FIXED -> <<KEY_FIXED>>
      [] t = Q_YES -> <<"YES">>
      [] t = Q_NO -> <<"NO">>
      [] OTHER -> <<t>>

JFail == [ok |-> FALSE, next |-> 0, val |-> NonStrVal("none"), obj |-> EmptyDict]

\* end of the run of digit tokens that starts at i
RECURSIVE SkipDigits(_, _)
SkipDigits(s, i) ==
    IF i > Len(s) THEN Len(s) + 1
    ELSE IF s[i] = "1" THEN SkipDigits(s, i + 1) ELSE i

RECURSIVE JValue(_, _)
RECURSIVE JMembers(_, _, _)
RECURSIVE JElements(_, _)

\* members of an object from position i (a member name is expected at i)
JMembers(s, i, acc) ==
    IF i > Len(s) \/ s[i] \notin QuotedStrings THEN JFail
    ELSE LET c == SkipWs(s, i + 1)
         IN  IF c > Len(s) \/ s[c] # ":" THEN JFail
             ELSE LET val == JValue(s, SkipWs(s, c + 1))
                  IN  IF ~val.ok THEN JFail
                      ELSE LET m == SkipWs(s, val.next)
                               acc2 == DictSet(acc, Unquote(s[i]), val.val)
                           IN  IF m > Len(s) THEN JFail
                               ELSE IF s[m] = "}"
                                    THEN [ok |-> TRUE, next |-> m + 1,
                                          val |-> NonStrVal("dict"), obj |-> acc2]
                               ELSE IF s[m] = ","
                                    THEN JMembers(s, SkipWs(s, m + 1), acc2)
                               ELSE JFail

\* elements of an array from position i (a value is expected at i)
JElements(s, i) ==
    LET val == JValue(s, i)
    IN  IF ~val.ok THEN JFail
        ELSE LET m == SkipWs(s, val.next)
             IN  IF m > Len(s) THEN JFail
                 ELSE IF s[m] = "]"
                      THEN [ok |-> TRUE, next |-> m + 1,
                            val |-> NonStrVal("list"), obj |-> EmptyDict]
                 ELSE IF s[m] = "," THEN JElements(s, SkipWs(s, m + 1))
                 ELSE JFail

\* one JSON value that starts at position i
JValue(s, i) ==
    IF i > Len(s) THEN JFail
    ELSE IF s[i] \in QuotedStrings
         THEN [ok |-> TRUE, next |-> i + 1,
               val |-> StrVal(Unquote(s[i])), obj |-> EmptyDict]
    ELSE IF s[i] = "1"
         THEN [ok |-> TRUE, next |-> SkipDigits(s, i),
               val |-> NonStrVal("int"), obj |-> EmptyDict]
    ELSE IF s[i] = "{"
         THEN LET j == SkipWs(s, i + 1)
              IN  IF j <= Len(s) /\ s[j] = "}"
                  THEN [ok |-> TRUE, next |-> j + 1,
                        val |-> NonStrVal("dict"), obj |-> EmptyDict]
                  ELSE JMembers(s, j, EmptyDict)
    ELSE IF s[i] = "["
         THEN LET j == SkipWs(s, i + 1)
              IN  IF j <= Len(s) /\ s[j] = "]"
                  THEN [ok |-> TRUE, next |-> j + 1,
                        val |-> NonStrVal("list"), obj |-> EmptyDict]
                  ELSE JElements(s, j)
    ELSE JFail

\* json.loads(s): ok = FALSE stands for json.JSONDecodeError
json_loads(s) ==
    LET val == JValue(s, SkipWs(s, 1))
    IN  IF val.ok /\ SkipWs(s, val.next) = Len(s) + 1
        THEN [ok |-> TRUE, obj |-> val.obj]
        ELSE [ok |-> FALSE, obj |-> EmptyDict]

(***************************************************************************)
(* Line-oriented parsing of the field section.                             *)
(***************************************************************************)
\* s.split('\n'): the list of lines of s
RECURSIVE SplitLines(_, _, _)
SplitLines(s, i, cur) ==
    IF i > Len(s) THEN <<cur>>
    ELSE IF s[i] = NL THEN <<cur>> \o SplitLines(s, i + 1, <<>>)
    ELSE SplitLines(s, i + 1, Append(cur, s[i]))

\* what .replace('*','').replace('[','').replace(']','') leaves of one token
DecoRemoved(t) ==
    CASE t \in {"*", "[", "]"} -> <<>>
      [] t = START_MARKER -> <<"REVIEWER_SCORECARD">>
      [] t = START_MARKER_LOWER -> <<"reviewer_scorecard">>
      [] t = END_MARKER -> <<"END_SCORECARD">>
      [] t = END_MARKER_LOWER -> <<"end_scorecard">>
      [] OTHER -> <<t>>

\* line.replace('*', '').replace('[', '').replace(']', '')
RECURSIVE RemoveDeco(_)
RemoveDeco(s) ==
    IF s = <<>> THEN <<>> ELSE DecoRemoved(Head(s)) \o RemoveDeco(Tail(s))

\* LineEntry with a greedy key group: the line is split at its last colon
LineEntryLastColon(rawline) ==
    LET line == Strip(rawline)
        hasColon == IndexOf(line, {":"}, 1) # 0
        clean == RemoveDeco(line)
        cs == {i \in 1..Len(clean) : clean[i] = ":"}
        c == IF cs = {} THEN 0 ELSE CHOOSE i \in cs : \A j \in cs : j <= i
    IN  IF hasColon /\ c > 1
        THEN [match |-> TRUE,
              key |-> Strip(SubSeq(clean, 1, c - 1)),
              value |-> Strip(Suffix(clean, c + 1))]
        ELSE [match |-> FALSE, key |-> <<>>, value |-> <<>>]

\* one line of the field section: the entry it contributes, if any
\* (re.match(r'([^:]+):(.*)') needs at least one character before the colon)
LineEntry(rawline) ==
    LET line == Strip(rawline)
        hasColon == IndexOf(line, {":"}, 1) # 0
        clean == RemoveDeco(line)
        c == IndexOf(clean, {":"}, 1)
    IN  IF hasColon /\ c > 1
        THEN [match |-> TRUE,
              key |-> Strip(SubSeq(clean, 1, c - 1)),
              value |-> Strip(Suffix(clean, c + 1))]
        ELSE [match |-> FALSE, key |-> <<>>, value |-> <<>>]

\* the for loop over scorecard_section.split('\n')
RECURSIVE ParseLines(_, _, _)
ParseLines(lines, i, acc) ==
    IF i > Len(lines) THEN acc
    ELSE LET e == LineEntry(lines[i])
         IN  ParseLines(lines, i + 1,
                        IF e.match THEN DictSet(acc, e.key, StrVal(e.value))
                        ELSE acc)

\* LineParse that stops after the first line of the field section
LineParseFirstLineOnly(section) ==
    ParseLines(<<SplitLines(section, 1, <<>>)[1]>>, 1, EmptyDict)

LineParse(section) == ParseLines(SplitLines(section, 1, <<>>), 1, EmptyDict)

(***************************************************************************)
(* _clean_kill_list.  The four literal header patterns only match header   *)
(* titles that are not lexemes of this model; on the texts modelled the    *)
(* generic pattern  ^[A-Z]\.\s+[^:]+:\s*\n?  (MULTILINE | IGNORECASE) is   *)
(* the one that acts.                                                      *)
(***************************************************************************)
\* ^ in MULTILINE mode matches at position i of s
AtLineStart(s, i) == i = 1 \/ s[i - 1] = NL

\* end (exclusive) of the match of the generic header pattern at i, 0 if none
HeaderMatchEnd(s, i) ==
    IF ~(AtLineStart(s, i) /\ s[i] = HDR) THEN 0
    ELSE IF i + 1 > Len(s) \/ ~IsSpace(s[i + 1]) THEN 0
    ELSE LET c == IndexOf(s, {":"}, i + 1)
         IN  IF c = 0 \/ c < i + 3 THEN 0 ELSE SkipWs(s, c + 1)

\* re.sub(generic pattern, '', s): leftmost non-overlapping matches removed
RECURSIVE RemoveHeaders(_, _)
RemoveHeaders(s, i) ==
    IF i > Len(s) THEN <<>>
    ELSE LET e == HeaderMatchEnd(s, i)
         IN  IF e # 0 THEN RemoveHeaders(s, e)
             ELSE <<s[i]>> \o RemoveHeaders(s, i + 1)

\* end (exclusive) of the run of newlines that starts at i
RECURSIVE SkipNewlines(_, _)
SkipNewlines(s, i) ==
    IF i > Len(s) THEN Len(s) + 1
    ELSE IF s[i] = NL THEN SkipNewlines(s, i + 1) ELSE i

\* re.sub(r'\n{3,}', '\n\n', s)
RECURSIVE CollapseNewlines(_, _)
CollapseNewlines(s, i) ==
    IF i > Len(s) THEN <<>>
    ELSE IF s[i] = NL
         THEN LET e == SkipNewlines(s, i)
              IN  (IF e - i >= 3 THEN <<NL, NL>> ELSE SubSeq(s, i, e - 1))
                  \o CollapseNewlines(s, e)
    ELSE <<s[i]>> \o CollapseNewlines(s, i + 1)

_clean_kill_list(audit_report) ==
    IF audit_report = <<>> THEN audit_report
    ELSE Strip(CollapseNewlines(RemoveHeaders(audit_report, 1), 1))

(***************************************************************************)
(* parse_scorecard (router_agent_orchestrator.py) and extract_scorecard    *)
(* (gemini_utils.py).  A result is (scorecard, audit_report); exc = TRUE   *)
(* stands for an exception leaving the function.                           *)
(***************************************************************************)
ParseResult(sc, ar) == [exc |-> FALSE, scorecard |-> sc, audit_report |-> ar]
ParseRaised == [exc |-> TRUE, scorecard |-> EmptyDict, audit_report |-> <<>>]

\* SplitAtMarkers with a slice that starts at the end marker, not after it
SplitAtMarkersKeepsEndMarker(full_response) ==
    LET st == FindStart(full_response, 1)
        en == IF st = 0 THEN 0 ELSE FindEnd(full_response, st + 1)
    IN  IF st = 0
        THEN [found |-> FALSE, section |-> <<>>, audit_report |-> <<>>]
        ELSE IF en = 0
        THEN [found |-> TRUE,
              section |-> Strip(Suffix(full_response, st + 1)),
              audit_report |-> <<>>]
        ELSE [found |-> TRUE,
              section |-> Strip(SubSeq(full_response, st + 1, en - 1)),
              audit_report |-> Strip(Suffix(full_response, en))]

\* the marker search and slicing both parsers start with:
\* found = FALSE when the start marker is absent
SplitAtMarkers(full_response) ==
    LET st == FindStart(full_response, 1)
        en == IF st = 0 THEN 0 ELSE FindEnd(full_response, st + 1)
    IN  IF st = 0
        THEN [found |-> FALSE, section |-> <<>>, audit_report |-> <<>>]
        ELSE IF en = 0
        THEN [found |-> TRUE,
              section |-> Strip(Suffix(full_response, st + 1)),
              audit_report |-> <<>>]
        ELSE [found |-> TRUE,
              section |-> Strip(SubSeq(full_response, st + 1, en - 1)),
              audit_report |-> Strip(Suffix(full_response, en + 1))]

\* scorecard_section.strip().startswith('{')
LooksLikeJson(section) ==
    LET s == Strip(section) IN s # <<>> /\ s[1] = "{"

\* the body of the outer try block of parse_scorecard
parse_scorecard_body(full_response) ==
    IF ~IsStr(full_response) THEN ParseRaised   \* re.search raises TypeError
    ELSE LET m == SplitAtMarkers(full_response)
             js == json_loads(m.section)
         IN  IF ~m.found THEN ParseResult(EmptyDict, full_response)
             ELSE IF LooksLikeJson(m.section) /\ js.ok
                  THEN ParseResult(js.obj, m.audit_report)
             ELSE ParseResult(LineParse(m.section),
                              _clean_kill_list(m.audit_report))

\* parse_scorecard without its outer  except Exception  clause
parse_scorecard_unguarded(full_response) ==
    parse_scorecard_body(full_response)

\* parse_scorecard: the outer  except Exception  returns ({}, full_response)
parse_scorecard(full_response) ==
    LET r == parse_scorecard_body(full_response)
    IN  IF r.exc THEN ParseResult(EmptyDict, full_response) ELSE r

\* the body of the try block of extract_scorecard (no JSON path, no cleaning)
extract_scorecard_body(full_response) ==
    IF ~IsStr(full_response) THEN ParseRaised
    ELSE LET m == SplitAtMarkers(full_response)
         IN  IF ~m.found THEN ParseResult(EmptyDict, full_response)
             ELSE ParseResult(LineParse(m.section), m.audit_report)

extract_scorecard(full_response) ==
    LET r == extract_scorecard_body(full_response)
    IN  IF r.exc THEN ParseResult(EmptyDict, full_response) ELSE r


(***************************************************************************)
(* run_refinement_loop: the mock variant (router_agent_orchestrator.py)    *)
(* and the live variant (live_agent_orchestrator.py).                      *)
(***************************************************************************)
VARIABLES
    variant,               \* "mock" | "live": which run_refinement_loop runs
    scenario,              \* "any" | "happy": the Reviewer's script
    max_iterations,        \* argument max_iterations
    pc,                    \* position of the session in run_refinement_loop
    iteration,             \* loop variable  iteration
    current_prompt,        \* current_prompt (mock) / user_query (live)
    previous_kill_list,    \* previous_kill_list
    draft_document,        \* draft_document
    final_document,        \* final_document (live variant only)
    full_review_response,  \* full_review_response (mock) / audit_response (live)
    scorecard,             \* scorecard
    audit_report,          \* audit_report
    outcome,               \* terminal branch taken: the one that returned
    retval,                \* value returned to the caller
    failure_trace,         \* what the failure trace of exhaustion shows
    fault,                 \* exception that left run_refinement_loop
    drafter_calls,         \* number of Drafter invocations so far
    critic_calls,          \* number of Critic invocations so far
    strategist_calls,      \* number of Strategist invocations so far
    drafter_args,          \* arguments of the last Drafter invocation
    critic_args,           \* arguments of the last Critic invocation
    rejected_round,        \* first round whose critic text had REJECTED, or 0
    parse_input,           \* text handed to the two parsers
    router_called,         \* parse_scorecard(parse_input) has returned
    router_result,         \* its result
    gemini_called,         \* extract_scorecard(parse_input) has returned
    gemini_result,         \* its result
    rt_map,                \* field map M that is formatted as a status block
    rt_feedback,           \* feedback text F written after the block
    rt_input,              \* the formatted text handed to parse_scorecard
    rt_called,             \* parse_scorecard(rt_input) has returned
    rt_result,             \* its result
    ds_max_iterations,     \* DSStarOrchestrator.max_iterations
    ds_pc,                 \* position of the session in DSStarOrchestrator.run
    ds_iteration,          \* loop variable  iteration  of run
    current_plan,          \* PlannerAgent.current_plan
    current_step,          \* current_step
    accumulated_plan,      \* accumulated_plan
    current_code,          \* current_code
    files,                 \* the files of ExecutionEngine.temp_dir
    payloads,              \* round -> the payload the Coder returned in it
    launched,              \* round -> content of the file its child ran
    child,                 \* behaviour of the child process last started
    execution_success,     \* execution_success
    execution_result,      \* execution_result
    reasoning,             \* reasoning  (the Verifier's text)
    action,                \* action  (the Router's decision)
    router_return,         \* the tuple decide_action returned last
    planner_op,            \* the Planner operation called last
    plan_before,           \* current_plan before that operation
    coder_args,            \* arguments of the last Coder invocation
    verifier_args,         \* arguments of the last Verifier invocation
    finalizer_args,        \* arguments of the last Finalyzer invocation
    ds_calls,              \* collaborator -> number of its invocations
    ds_retval,             \* value run returned
    ds_fault,              \* exception that left run
    sessions,              \* orchestrator instance -> the state of its run
    file_owner,            \* file -> the instance that wrote it last
    max_retries,           \* argument max_retries of call_gemini_with_retry
    initial_delay,         \* argument initial_delay
    retry_pc,              \* position in call_gemini_with_retry
    attempt,               \* attempt  (the loop variable)
    delay,                 \* delay
    events,                \* the attempts and sleeps so far, in order
    retry_result           \* how the call ended

loop_vars ==
    <<variant, scenario, max_iterations, pc, iteration, current_prompt,
      previous_kill_list, draft_document, final_document,
      full_review_response, scorecard, audit_report, outcome, retval,
      failure_trace, fault, drafter_calls, critic_calls, strategist_calls,
      drafter_args, critic_args, rejected_round>>

parse_vars ==
    <<parse_input, router_called, router_result, gemini_called, gemini_result>>

rt_vars == <<rt_map, rt_feedback, rt_input, rt_called, rt_result>>

session_vars == <<sessions, file_owner>>

ds_vars ==
    <<ds_max_iterations, ds_pc, ds_iteration, current_plan, current_step,
      accumulated_plan, current_code, files, payloads, launched, child,
      execution_success, execution_result, reasoning, action,
      router_return, planner_op, plan_before, coder_args, verifier_args,
      finalizer_args, ds_calls, ds_retval, ds_fault, session_vars>>

retry_vars ==
    <<max_retries, initial_delay, retry_pc, attempt, delay, events,
      retry_result>>

vars == <<loop_vars, parse_vars, rt_vars, ds_vars, retry_vars>>

Variants == {"mock", "live"}
Outcomes == {"SUCCESS", "REJECTED", "EXHAUSTED"}

\* what the Drafter can return
Documents == {"draft_a", "draft_b"}
\* what the caller passes as initial instruction
INITIAL_PROMPT == "initial_prompt"
\* what the Strategist can return
Prompts == {"prompt_a", "prompt_b"}

(***************************************************************************)
(* Critic texts of a session: an optional start marker, a field section,   *)
(* an optional end marker, a feedback text.                                *)
(***************************************************************************)
LoopSections ==
    { <<>>,
      <<NL, "*", SP, KEY_FIXED, ":", SP, "[", "YES", "]", NL>>,
      <<NL, KEY_FIXED, ":", SP, "yes", NL>>,
      <<NL, KEY_FIXED, ":", SP, "NO", NL>>,
      <<NL, KEY_FIXED, ":", SP, "YES", SP, "text", NL>>,
      <<NL, KEY_FIXED, ":", SP, "REJECTED", NL>>,
      <<NL, KEY_ADK, ":", SP, "YES", NL>>,
      <<NL, KEY_FIXED, ":", "NO", NL, KEY_FIXED, ":", "YES", NL>>,
      <<NL, "{", Q_KEY_FIXED, ":", SP, Q_YES, "}", NL>>,
      <<NL, "{", Q_KEY_FIXED, ":", SP, "1", "}", NL>>,
      <<NL, "{", KEY_FIXED, ":", SP, "YES", NL>> }

LoopFeedbacks ==
    { <<>>,
      <<NL, NL, "text", NL>>,
      <<SP, "REJECTED">>,
      <<NL, HDR, SP, "text", ":", NL, "text", SP>> }

\* texts with other-case markers, with one marker only, with none
LoopOtherTexts ==
    { <<START_MARKER_LOWER, NL, KEY_FIXED, ":", SP, "YES", NL,
        END_MARKER_LOWER>>,
      <<START_MARKER_LOWER, NL, KEY_FIXED, ":", SP, "YES", NL,
        END_MARKER_LOWER, NL, "*", "*", "rejected", "*", "*", ":", SP, "text">>,
      <<START_MARKER, NL, KEY_FIXED, ":", SP, "YES", NL>>,
      <<START_MARKER, NL, KEY_FIXED, ":", SP, "NO", NL, "text">>,
      <<NL, NL, "text", NL>>,
      <<NL, KEY_FIXED, ":", SP, "YES", NL, END_MARKER, "text">>,
      <<"text", SP, "rejected", NL>> }

CriticTexts ==
    { <<START_MARKER>> \o sec \o <<END_MARKER>> \o fb :
        sec \in LoopSections, fb \in LoopFeedbacks } \cup LoopOtherTexts

\* Scenario 1 of the validation harness (mock_happy_path_responses): the
\* Reviewer's text at its n-th invocation.  "text" stands for a run of
\* prose, "N/A" for the word N/A; the four fields that stay [YES]/[PASS] in
\* all three rounds are left out.
HappyScorecard(fixed, lean, adk) ==
    <<START_MARKER, NL,
      "*", SP, KEY_FIXED, ":", SP, "[", fixed, "]">> \o
    (IF fixed = "N/A" THEN <<SP, "text">> ELSE <<>>) \o
    <<NL, "*", SP, KEY_LEAN, ":", SP, "[", lean, "]", NL,
      "*", SP, KEY_ADK, ":", SP, "[", adk, "]", NL,
      END_MARKER, NL, NL>>

mock_happy_path_responses(n) ==
    IF n = 1
    THEN HappyScorecard("N/A", "NO", "YES")
         \o <<"text", ":", NL, NL, "text", ":", NL, "text", NL, "text">>
    ELSE IF n = 2
    THEN HappyScorecard("YES", "YES", "NO")
         \o <<"text", ":", NL, NL, "text", ":", NL, "text">>
    ELSE HappyScorecard("YES", "YES", "YES") \o <<"text">>

(***************************************************************************)
(* The decision step of a round and the return statements.                 *)
(***************************************************************************)
\* the parser each variant calls on the critic text
Parser(v, text) ==
    IF v = "mock" THEN parse_scorecard(text) ELSE extract_scorecard(text)

\* a lookup whose default is "YES"
FixedFieldDefaultYes(sc) == DictGet(sc, <<KEY_FIXED>>, StrVal(<<"YES">>))

\* scorecard.get("Previous_Kill_List_Fixed", "NO")
FixedField(sc) == DictGet(sc, <<KEY_FIXED>>, StrVal(<<"NO">>))

\* kill_list_fixed without the .upper()
kill_list_fixed_case_sensitive(value) == value.v

\* .upper() of that value; only a str has the method
kill_list_fixed(value) == UpperText(value.v)

\* is_rejected without the .upper()
is_rejected_case_sensitive(text) ==
    \E i \in 1..Len(text) : text[i] = "REJECTED"

\* is_rejected = "REJECTED" in full_review_response.upper()
is_rejected(text) == ContainsRejected(text)

\* previous_kill_list = audit_report, without the .strip()
NextKillListUnstripped(report) == report

\* previous_kill_list = audit_report.strip()
NextKillList(report) == Strip(report)

NoReturn == [kind |-> "none", success |-> FALSE, document |-> "n/a"]

\* the value of a return statement: a bool in the mock variant, the pair
\* (bool, final_document) in the live variant
Returned(v, success, doc) ==
    IF v = "mock"
    THEN [kind |-> "bool", success |-> success, document |-> "n/a"]
    ELSE [kind |-> "tuple", success |-> success, document |-> doc]

\* the failure trace printed on exhaustion: the final prompt, the final
\* reviewer response (mock variant only) and the final scorecard
FailureTrace(v, prompt, response, card) ==
    [prompt |-> prompt,
     response |-> IF v = "mock" THEN response ELSE <<>>,
     scorecard |-> card]
NoTrace == FailureTrace("live", "none", <<>>, EmptyDict)

\* the return statements with  return True  in the rejection branch
ReturnValueRejectedTrue(v, o, doc) ==
    CASE o = "REJECTED" -> Returned(v, TRUE, doc)
      [] o = "SUCCESS" -> Returned(v, TRUE, doc)
      [] o = "EXHAUSTED" -> Returned(v, FALSE, doc)

\* the return statement of each terminal branch
ReturnValue(v, o, doc) ==
    CASE o = "REJECTED" -> Returned(v, FALSE, doc)
      [] o = "SUCCESS" -> Returned(v, TRUE, doc)
      [] o = "EXHAUSTED" -> Returned(v, FALSE, doc)

(***************************************************************************)
(* Inputs of the parser specification.                                     *)
(***************************************************************************)
ExhTokens ==
    {START_MARKER, START_MARKER_LOWER, END_MARKER, KEY_FIXED, ":", "YES",
     SP, NL, "{", "REJECTED"}

RECURSIVE TextsOfLen(_, _)
TextsOfLen(T, n) ==
    IF n = 0 THEN {<<>>}
    ELSE {Append(s, t) : s \in TextsOfLen(T, n - 1), t \in T}

TextsUpTo(T, n) == UNION {TextsOfLen(T, k) : k \in 0..n}

ParseSections ==
    LoopSections \cup
    { <<NL, ":", SP, "text", NL, "*", SP, ":", SP, "YES", NL,
        KEY_ADK, ":", SP, "YES", ":", "NO", NL>>,
      <<SP, KEY_FIXED, SP, "YES", NL, "text", NL>>,
      <<NL, KEY_FIXED, ":", SP, START_MARKER, NL>>,
      <<"{", "}">>,
      <<"{", NL, Q_KEY_FIXED, ":", Q_NO, ",", Q_KEY_FIXED, ":", Q_YES, "}">>,
      <<"{", Q_KEY_FIXED, ":", "[", "1", ",", Q_YES, "]", ",",
        Q_YES, ":", "{", "}", "}">>,
      <<"{", Q_KEY_FIXED, ":", Q_YES, ",", "}">>,
      <<"{", Q_KEY_FIXED, ":", Q_YES, "}", SP, "text">>,
      <<"text", "{", Q_KEY_FIXED, ":", Q_YES, "}">> }

ParseFeedbacks ==
    LoopFeedbacks \cup
    { <<SP, "text", SP>>,
      <<NL, "*", "*", "rejected", "*", "*", ":", SP, "text">>,
      <<NL, HDR, SP, ":", SP, "text">>,
      <<NL, HDR, SP, SP, ":", SP, "text">>,
      <<NL, HDR, SP, "text", ":", SP, HDR, SP, "text", ":", SP, "text">>,
      <<NL, HDR, SP, "text", ":", NL, NL, NL, HDR, SP, "text", ":", NL, NL,
        NL, NL, "text">>,
      <<NL, "text", SP, HDR, SP, "text", ":", SP, "text">>,
      <<NL, HDR, SP, "text", NL, "text", SP, "NO", ":", SP, "YES">>,
      <<NL, "text", NL, NL, NL, "text", NL>>,
      <<NL, END_MARKER, SP, "text">> }

ParsePrefixes == { <<>>, <<"text", NL>> }

StructuredTexts ==
    UNION { { pre \o <<START_MARKER>> \o sec \o <<END_MARKER>> \o fb,
              pre \o <<START_MARKER_LOWER>> \o sec \o <<END_MARKER_LOWER>> \o fb,
              pre \o <<START_MARKER>> \o sec \o fb,
              pre \o sec \o <<END_MARKER>> \o fb,
              pre \o sec \o fb } :
            pre \in ParsePrefixes, sec \in ParseSections, fb \in ParseFeedbacks }

ParseInputs ==
    {NoneValue} \cup TextsUpTo(ExhTokens, MaxTextLen) \cup StructuredTexts

(***************************************************************************)
(* DSStarOrchestrator.run (ds_star_agent.py) with the collaborators it     *)
(* drives: PlannerAgent, CoderAgent, ExecutionEngine, VerifierAgent,       *)
(* RouterAgent and FinalyzerAgent.  The n-th text the Planner's LLM        *)
(* returns is the step n; the other collaborators' texts are drawn from    *)
(* small sets.                                                             *)
(***************************************************************************)
\* largest round budget an analysis session is started with
DSMaxIterBound == 3

Range(f) == {f[x] : x \in DOMAIN f}

\* word (upper case) in text.upper(), the words being lexemes of the text
\* or, like SUFFICIENT in INSUFFICIENT, parts of one
ContainsWord(text, word) ==
    \E i \in 1..Len(text) :
        \/ Upper(text[i]) = word
        \/ word = "SUFFICIENT" /\ Upper(text[i]) = "INSUFFICIENT"
        \/ word = "CORRECT" /\ Upper(text[i]) = "CORRECT_STEP"
        \/ word = "REMOVE" /\ Upper(text[i]) = "REMOVE_STEP"

\* a get_full_plan that numbers the steps from 1
get_full_plan_one_based(plan) == [i \in 1..Len(plan) |-> <<i, plan[i]>>]

\* PlannerAgent.get_full_plan: the steps labelled with their positions
get_full_plan(plan) == [i \in 1..Len(plan) |-> <<i - 1, plan[i]>>]

\* PlannerAgent.generate_initial_step: the step the LLM returned is
\* appended
generate_initial_step(plan, new_step) ==
    [raised |-> FALSE, plan |-> Append(plan, new_step), step |-> new_step]

\* PlannerAgent.add_step: the step the LLM returned is appended
add_step(plan, new_step) ==
    [raised |-> FALSE, plan |-> Append(plan, new_step), step |-> new_step]

\* a correct_step that returns the corrected step without storing it
correct_step_not_stored(plan, step_index, new_step) ==
    [raised |-> FALSE, plan |-> plan, step |-> new_step]

\* PlannerAgent.correct_step: plan[step_index] = corrected_step with the
\* list indexing of Python (a negative index counts from the end)
correct_step(plan, step_index, new_step) ==
    IF step_index >= Len(plan) THEN add_step(plan, new_step)
    ELSE IF step_index >= 0
    THEN [raised |-> FALSE, step |-> new_step,
          plan |-> [plan EXCEPT ![step_index + 1] = new_step]]
    ELSE IF step_index >= -Len(plan)
    THEN [raised |-> FALSE, step |-> new_step,
          plan |-> [plan EXCEPT ![Len(plan) + step_index + 1] = new_step]]
    ELSE [raised |-> TRUE, plan |-> plan, step |-> new_step]

\* an evaluate_sufficiency that tests the positive token only
evaluate_sufficiency_positive_only(evaluation) ==
    IF ContainsWord(evaluation, "SUFFICIENT")
    THEN "SUFFICIENT" ELSE "INSUFFICIENT"

\* VerifierAgent.evaluate_sufficiency: the verdict for the LLM's text
evaluate_sufficiency(evaluation) ==
    IF ContainsWord(evaluation, "SUFFICIENT")
       /\ ~ContainsWord(evaluation, "INSUFFICIENT")
    THEN "SUFFICIENT" ELSE "INSUFFICIENT"

\* a decide_action that looks for REMOVE before CORRECT
decide_action_remove_first(decision) ==
    IF ContainsWord(decision, "REMOVE")
    THEN [action |-> "REMOVE_STEP", step_index |-> 0, none |-> FALSE,
          feedback |-> decision]
    ELSE IF ContainsWord(decision, "CORRECT")
    THEN [action |-> "CORRECT_STEP", step_index |-> 0, none |-> FALSE,
          feedback |-> decision]
    ELSE [action |-> "ADD_STEP", step_index |-> -1, none |-> TRUE,
          feedback |-> decision]

\* RouterAgent.decide_action: (action, step_index, feedback) for the LLM's
\* text; none tells that step_index is None
decide_action(decision) ==
    IF ContainsWord(decision, "CORRECT")
    THEN [action |-> "CORRECT_STEP", step_index |-> 0, none |-> FALSE,
          feedback |-> decision]
    ELSE IF ContainsWord(decision, "REMOVE")
    THEN [action |-> "REMOVE_STEP", step_index |-> 0, none |-> FALSE,
          feedback |-> decision]
    ELSE [action |-> "ADD_STEP", step_index |-> -1, none |-> TRUE,
          feedback |-> decision]

\* a branch that carries out REMOVE_STEP by deleting the target step
ApplyRefinementRemoveDeletes(plan, d, new_step) ==
    IF d.action = "CORRECT_STEP"
    THEN correct_step(plan, IF d.none THEN 0 ELSE d.step_index, new_step)
    ELSE IF d.action = "REMOVE_STEP"
    THEN [raised |-> FALSE, plan |-> Tail(plan), step |-> new_step]
    ELSE add_step(plan, new_step)

\* the branch of run that applies the Router's decision to the plan
ApplyRefinement(plan, d, new_step) ==
    IF d.action = "CORRECT_STEP"
    THEN correct_step(plan, IF d.none THEN 0 ELSE d.step_index, new_step)
    ELSE add_step(plan, new_step)

\* a call of a Planner operation: its name, the step_index it was given
\* (0 where it takes none) and whether it raised
PlannerOp(op, step_index, raised) ==
    [op |-> op, step_index |-> step_index, raised |-> raised]
NoPlannerOp == PlannerOp("none", 0, FALSE)

\* the Planner operation run calls for the Router's decision d, with
\* outcome p
AppliedOp(d, p) ==
    IF d.action = "CORRECT_STEP"
    THEN PlannerOp("correct_step", IF d.none THEN 0 ELSE d.step_index,
                   p.raised)
    ELSE PlannerOp("add_step", 0, p.raised)

\* self.temp_dir / f"script_iter_{iteration}.py"
script_path_shared(iter) == <<"script_iter", 0>>
script_path(iter) == <<"script_iter", iter>>

\* bytes no codec decodes, printed by a child
UNDECODABLE == "<0xff>"

\* what a started child can do: exit with a status after printing, run
\* longer than the timeout, or not start at all (OSError from Popen)
ChildRuns ==
    [kind : {"exit"}, returncode : {0, 1},
     stdout : {<<>>, <<"out">>, <<UNDECODABLE>>},
     stderr : {<<>>, <<"err">>}]
    \cup [kind : {"timeout", "oserror"}, returncode : {0},
          stdout : {<<>>}, stderr : {<<>>}]

NoChild == [kind |-> "none", returncode |-> 0, stdout |-> <<>>, stderr |-> <<>>]

ExecResult(success, output) ==
    [raised |-> FALSE, success |-> success, output |-> output]

\* the try block of execute_script whose timeout is not caught
execute_script_timeout_escapes(c) ==
    IF c.kind = "timeout"
    THEN [raised |-> TRUE, success |-> FALSE, output |-> <<>>]
    ELSE IF c.kind = "oserror" THEN ExecResult(FALSE, <<"ERROR:", "cause">>)
    ELSE IF UNDECODABLE \in Range(c.stdout \o c.stderr)
    THEN ExecResult(FALSE, <<"ERROR:", "codec can't decode">>)
    ELSE ExecResult(c.returncode = 0, c.stdout \o c.stderr)

\* the try block of execute_script: subprocess.run(..., text=True,
\* timeout=60) and the three ways it ends
execute_script_try(c) ==
    IF c.kind = "timeout"
    THEN ExecResult(FALSE, <<"ERROR:", "Script execution", "timed out">>)
    ELSE IF c.kind = "oserror" THEN ExecResult(FALSE, <<"ERROR:", "cause">>)
    ELSE IF UNDECODABLE \in Range(c.stdout \o c.stderr)
    THEN ExecResult(FALSE, <<"ERROR:", "codec can't decode">>)
    ELSE ExecResult(c.returncode = 0, c.stdout \o c.stderr)

\* the keyword arguments run passes to evaluate_sufficiency
VerifierCallAssumesSuccess(plan, code, result, success) ==
    [accumulated_plan |-> plan, current_code |-> code,
     execution_result |-> result, execution_success |-> TRUE]
VerifierCall(plan, code, result, success) ==
    [accumulated_plan |-> plan, current_code |-> code,
     execution_result |-> result, execution_success |-> success]

Payloads == {"code_a", "code_b"}
VerifierTexts ==
    { <<"SUFFICIENT">>, <<"sufficient">>, <<"INSUFFICIENT">>,
      <<"SUFFICIENT", SP, "insufficient">>,
      <<"Mock response from Verifier">> }
RouterTexts ==
    { <<"Mock response from Router">>, <<"correct">>, <<"REMOVE_STEP">>,
      <<"remove", SP, "CORRECT_STEP">> }
Collaborators ==
    {"Planner", "Coder", "Sandbox", "Verifier", "Router", "Finalyzer"}

NoCoderArgs == [current_step |-> 0, accumulated_plan |-> <<>>]
NoVerifierArgs == VerifierCall(<<>>, "none", <<>>, FALSE)
NoFinalizerArgs == [final_code |-> "none", accumulated_plan |-> <<>>]
NoRouterReturn ==
    [action |-> "none", step_index |-> -1, none |-> TRUE, feedback |-> <<>>]

\* the files a working directory can hold when a session starts: none, or
\* the payload files an earlier session left
InitialFiles ==
    { [n \in {} |-> <<>>],
      [n \in {script_path(k) : k \in 1..DSMaxIterBound} |-> "stale"] }

\* the state of an orchestrator that __init__ has built
DSConstructed ==
    /\ ds_iteration = 0
    /\ current_plan = <<>>
    /\ current_step = 0
    /\ accumulated_plan = <<>>
    /\ current_code = "unbound"
    /\ payloads = <<>>
    /\ launched = <<>>
    /\ child = NoChild
    /\ execution_success = FALSE
    /\ execution_result = <<>>
    /\ reasoning = <<>>
    /\ action = "none"
    /\ router_return = NoRouterReturn
    /\ planner_op = NoPlannerOp
    /\ plan_before = <<>>
    /\ coder_args = NoCoderArgs
    /\ verifier_args = NoVerifierArgs
    /\ finalizer_args = NoFinalizerArgs
    /\ ds_calls = [c \in Collaborators |-> 0]
    /\ ds_retval = "none"
    /\ ds_fault = "none"

\* no second orchestrator instance exists
SessionsIdle ==
    /\ sessions = [s \in {} |-> <<>>]
    /\ file_owner = [n \in {} |-> 0]

\* call_gemini_with_retry has not been called
NoRetryResult ==
    [kind |-> "none", value |-> "", attempts |-> 0, error |-> "none"]

RetryIdle ==
    /\ max_retries = 0
    /\ initial_delay = 0
    /\ retry_pc = "idle"
    /\ attempt = 0
    /\ delay = 0
    /\ events = <<>>
    /\ retry_result = NoRetryResult

\* no analysis session exists
DSIdle ==
    /\ ds_max_iterations = 0
    /\ ds_pc = "idle"
    /\ files = [n \in {} |-> <<>>]
    /\ DSConstructed
    /\ SessionsIdle

(***************************************************************************)
(* Initial states.                                                         *)
(***************************************************************************)
NoDrafterArgs == [prompt |-> "none", kill_list |-> <<>>]
NoCriticArgs == [document |-> "none", kill_list |-> <<>>]

\* the locals of run_refinement_loop before its for loop (mock: lines
\* 216-217, live: lines 222-223); no parser call is in progress
LoopLocalsInit ==
    /\ iteration = 0
    /\ current_prompt = INITIAL_PROMPT
    /\ previous_kill_list = <<>>
    /\ draft_document = "unbound"
    /\ final_document = "None"
    /\ full_review_response = <<>>
    /\ scorecard = EmptyDict
    /\ audit_report = <<>>
    /\ outcome = "none"
    /\ retval = NoReturn
    /\ failure_trace = NoTrace
    /\ fault = "none"
    /\ drafter_calls = 0
    /\ critic_calls = 0
    /\ strategist_calls = 0
    /\ drafter_args = NoDrafterArgs
    /\ critic_args = NoCriticArgs
    /\ rejected_round = 0

ParserIdle ==
    /\ parse_input = <<>>
    /\ router_called = FALSE
    /\ router_result = ParseResult(EmptyDict, <<>>)
    /\ gemini_called = FALSE
    /\ gemini_result = ParseResult(EmptyDict, <<>>)

\* no status block has been formatted
RoundTripIdle ==
    /\ rt_map = EmptyDict
    /\ rt_feedback = <<>>
    /\ rt_input = <<>>
    /\ rt_called = FALSE
    /\ rt_result = ParseResult(EmptyDict, <<>>)

\* a session of run_refinement_loop is entered.  The harness runs Scenario 1
\* on the mock variant with a budget that is not the limiting factor.
Init ==
    /\ variant \in Variants
    /\ scenario \in {"any", "happy"}
    /\ scenario = "happy" => variant = "mock"
    /\ max_iterations \in 0..MaxIterBound
    /\ scenario = "happy" => max_iterations = MaxIterBound
    /\ pc = "loop"
    /\ LoopLocalsInit
    /\ RetryIdle
    /\ ParserIdle
    /\ RoundTripIdle
    /\ DSIdle

(***************************************************************************)
(* Steps of run_refinement_loop.                                           *)
(***************************************************************************)
\* a loop that sends the caller's initial instruction in every round
DraftWithInitialPrompt ==
    /\ pc = "loop"
    /\ iteration < max_iterations
    /\ iteration' = iteration + 1
    /\ drafter_calls' = drafter_calls + 1
    /\ drafter_args' = [prompt |-> INITIAL_PROMPT,
                        kill_list |-> previous_kill_list]
    /\ \E d \in Documents :
          /\ draft_document' = d
          /\ final_document' = IF variant = "live" THEN d ELSE final_document
    /\ pc' = "audit"
    /\ UNCHANGED <<retry_vars, variant, scenario, max_iterations, current_prompt,
                   previous_kill_list, full_review_response, scorecard,
                   audit_report, outcome, retval, failure_trace, fault,
                   critic_calls, strategist_calls, critic_args,
                   rejected_round, parse_vars, rt_vars, ds_vars>>

\* for iteration in range(1, max_iterations + 1): the next round starts and
\* the Drafter is invoked and returns a document
Draft ==
    /\ pc = "loop"
    /\ iteration < max_iterations
    /\ iteration' = iteration + 1
    /\ drafter_calls' = drafter_calls + 1
    /\ drafter_args' = [prompt |-> current_prompt,
                        kill_list |-> previous_kill_list]
    /\ \E d \in Documents :
          /\ draft_document' = d
          /\ final_document' = IF variant = "live" THEN d ELSE final_document
    /\ pc' = "audit"
    /\ UNCHANGED <<retry_vars, variant, scenario, max_iterations, current_prompt,
                   previous_kill_list, full_review_response, scorecard,
                   audit_report, outcome, retval, failure_trace, fault, critic_calls,
                   strategist_calls, critic_args, rejected_round, parse_vars, rt_vars,
                   ds_vars>>

\* a loop that catches the Drafter's exception and ends the session with
\* return False
DraftRaisesMasked ==
    /\ pc = "loop"
    /\ iteration < max_iterations
    /\ iteration' = iteration + 1
    /\ drafter_calls' = drafter_calls + 1
    /\ drafter_args' = [prompt |-> current_prompt,
                        kill_list |-> previous_kill_list]
    /\ pc' = "done"
    /\ fault' = "CollaboratorFault"
    /\ retval' = Returned(variant, FALSE, final_document)
    /\ UNCHANGED <<retry_vars, variant, scenario, max_iterations, current_prompt,
                   previous_kill_list, draft_document, final_document,
                   full_review_response, scorecard, audit_report, outcome,
                   failure_trace, critic_calls, strategist_calls,
                   critic_args, rejected_round, parse_vars, rt_vars,
                   ds_vars>>

\* the next round starts and the Drafter invocation raises
DraftRaises ==
    /\ pc = "loop"
    /\ iteration < max_iterations
    /\ iteration' = iteration + 1
    /\ drafter_calls' = drafter_calls + 1
    /\ drafter_args' = [prompt |-> current_prompt,
                        kill_list |-> previous_kill_list]
    /\ pc' = "raised"
    /\ fault' = "CollaboratorFault"
    /\ UNCHANGED <<retry_vars, variant, scenario, max_iterations, current_prompt,
                   previous_kill_list, draft_document, final_document,
                   full_review_response, scorecard, audit_report, outcome,
                   retval, failure_trace, critic_calls, strategist_calls, critic_args,
                   rejected_round, parse_vars, rt_vars,
                   ds_vars>>

\* the Critic is invoked and returns its raw text
Audit ==
    /\ pc = "audit"
    /\ critic_calls' = critic_calls + 1
    /\ critic_args' = [document |-> draft_document,
                       kill_list |-> previous_kill_list]
    /\ \E text \in (IF scenario = "happy"
                    THEN {mock_happy_path_responses(critic_calls + 1)}
                    ELSE CriticTexts) :
          /\ full_review_response' = text
          /\ rejected_round' =
                IF rejected_round = 0 /\ ContainsRejected(text)
                THEN iteration ELSE rejected_round
    /\ pc' = "decide"
    /\ UNCHANGED <<retry_vars, variant, scenario, max_iterations, iteration,
                   current_prompt, previous_kill_list, draft_document,
                   final_document, scorecard, audit_report, outcome, retval, failure_trace,
                   fault, drafter_calls, strategist_calls, drafter_args,
                   parse_vars, rt_vars,
                   ds_vars>>

\* the Critic invocation raises
AuditRaises ==
    /\ pc = "audit"
    /\ critic_calls' = critic_calls + 1
    /\ critic_args' = [document |-> draft_document,
                       kill_list |-> previous_kill_list]
    /\ pc' = "raised"
    /\ fault' = "CollaboratorFault"
    /\ UNCHANGED <<retry_vars, variant, scenario, max_iterations, iteration,
                   current_prompt, previous_kill_list, draft_document,
                   final_document, full_review_response, scorecard,
                   audit_report, outcome, retval, failure_trace, drafter_calls,
                   strategist_calls, drafter_args, rejected_round,
                   parse_vars, rt_vars,
                   ds_vars>>

\* parse the critic text and decide: rejected, success or continue
Decide ==
    /\ pc = "decide"
    /\ LET r == Parser(variant, full_review_response)
           value == FixedField(r.scorecard)
       IN  /\ scorecard' = r.scorecard
           /\ audit_report' = r.audit_report
           /\ IF value.type # "str"
              THEN \* .upper() on a value that is not a str
                   /\ pc' = "raised"
                   /\ fault' = "AttributeError"
                   /\ UNCHANGED <<outcome, retval, previous_kill_list>>
              ELSE IF is_rejected(full_review_response)
              THEN /\ pc' = "done"
                   /\ outcome' = "REJECTED"
                   /\ retval' = ReturnValue(variant, "REJECTED", final_document)
                   /\ UNCHANGED <<fault, previous_kill_list>>
              ELSE IF kill_list_fixed(value) = <<"YES">>
              THEN /\ pc' = "done"
                   /\ outcome' = "SUCCESS"
                   /\ retval' = ReturnValue(variant, "SUCCESS", final_document)
                   /\ UNCHANGED <<fault, previous_kill_list>>
              ELSE /\ pc' = "strategize"
                   /\ previous_kill_list' = NextKillList(r.audit_report)
                   /\ UNCHANGED <<fault, outcome, retval>>
    /\ UNCHANGED <<retry_vars, variant, scenario, max_iterations, iteration,
                   current_prompt, draft_document, final_document,
                   full_review_response, drafter_calls, critic_calls,
                   strategist_calls, drafter_args, critic_args,
                   failure_trace, rejected_round, parse_vars, rt_vars,
                   ds_vars>>

\* the Strategist is invoked and returns the next instruction
Strategize ==
    /\ pc = "strategize"
    /\ strategist_calls' = strategist_calls + 1
    /\ \E p \in Prompts : current_prompt' = p
    /\ pc' = "loop"
    /\ UNCHANGED <<retry_vars, variant, scenario, max_iterations, iteration,
                   previous_kill_list, draft_document, final_document,
                   full_review_response, scorecard, audit_report, outcome,
                   retval, failure_trace, fault, drafter_calls, critic_calls, drafter_args,
                   critic_args, rejected_round, parse_vars, rt_vars,
                   ds_vars>>

\* the Strategist invocation raises
StrategizeRaises ==
    /\ pc = "strategize"
    /\ strategist_calls' = strategist_calls + 1
    /\ pc' = "raised"
    /\ fault' = "CollaboratorFault"
    /\ UNCHANGED <<retry_vars, variant, scenario, max_iterations, iteration,
                   current_prompt, previous_kill_list, draft_document,
                   final_document, full_review_response, scorecard,
                   audit_report, outcome, retval, failure_trace, drafter_calls, critic_calls,
                   drafter_args, critic_args, rejected_round, parse_vars, rt_vars,
                   ds_vars>>

\* the for loop is over: the failure trace is printed and False returned.
\* Its first entry is current_prompt (live: user_query), the variable the
\* Strategist's result was assigned to at the end of the last round.
\* The trace reads full_review_response and scorecard, which are bound only
\* if a round has run.
Exhausted ==
    /\ pc = "loop"
    /\ iteration >= max_iterations
    /\ IF critic_calls = 0
       THEN /\ pc' = "raised"
            /\ fault' = "UnboundLocalError"
            /\ UNCHANGED <<outcome, retval, failure_trace>>
       ELSE /\ pc' = "done"
            /\ outcome' = "EXHAUSTED"
            /\ failure_trace' =
                  FailureTrace(variant, current_prompt, full_review_response,
                               scorecard)
            /\ retval' = ReturnValue(variant, "EXHAUSTED", final_document)
            /\ UNCHANGED fault
    /\ UNCHANGED <<retry_vars, variant, scenario, max_iterations, iteration,
                   current_prompt, previous_kill_list, draft_document,
                   final_document, full_review_response, scorecard,
                   audit_report, drafter_calls, critic_calls,
                   strategist_calls, drafter_args, critic_args,
                   rejected_round, parse_vars, rt_vars,
                   ds_vars>>

Next ==
    \/ Draft
    \/ DraftRaises
    \/ Audit
    \/ AuditRaises
    \/ Decide
    \/ Strategize
    \/ StrategizeRaises
    \/ Exhausted

Spec == Init /\ [][Next]_vars

(***************************************************************************)
(* The parser specification: an input is drawn and both parsers are        *)
(* applied to it.                                                          *)
(***************************************************************************)
InitParse ==
    /\ variant = "mock"
    /\ scenario = "any"
    /\ max_iterations = 0
    /\ pc = "idle"
    /\ LoopLocalsInit
    /\ RetryIdle
    /\ parse_input \in ParseInputs
    /\ router_called = FALSE
    /\ router_result = ParseResult(EmptyDict, <<>>)
    /\ gemini_called = FALSE
    /\ gemini_result = ParseResult(EmptyDict, <<>>)
    /\ RoundTripIdle
    /\ DSIdle

CallParseScorecard ==
    /\ ~router_called
    /\ router_called' = TRUE
    /\ router_result' = parse_scorecard(parse_input)
    /\ UNCHANGED <<retry_vars, loop_vars, rt_vars, ds_vars, parse_input, gemini_called,
                   gemini_result>>

CallExtractScorecard ==
    /\ ~gemini_called
    /\ gemini_called' = TRUE
    /\ gemini_result' = extract_scorecard(parse_input)
    /\ UNCHANGED <<retry_vars, loop_vars, rt_vars, ds_vars, parse_input, router_called,
                   router_result>>

NextParse == CallParseScorecard \/ CallExtractScorecard

SpecParse == InitParse /\ [][NextParse]_vars

(***************************************************************************)
(* Round trip: a field map and a feedback text are written as a status     *)
(* block the way the Reviewer is asked to write it (start marker, one      *)
(* "key: value" line per entry, end marker, feedback) and the block is     *)
(* handed to parse_scorecard.                                              *)
(***************************************************************************)
\* most entries of a formatted field map
MaxMapSize == 2

RtKeys ==
    { <<KEY_FIXED>>, <<"text">>, <<>>, <<SP, "text">>, <<"*", "text">>,
      <<"text", ":", "text">>, <<"{", Q_KEY_FIXED>> }

RtValues ==
    { <<"YES">>, <<>>, <<"[", "YES", "]">>, <<"YES", ":", "NO">>,
      <<"YES", SP>>, <<"text", NL, KEY_FIXED, ":", "NO">>, <<END_MARKER>>,
      <<"1", "}">> }

RtFeedbacks ==
    { <<>>, <<HDR, SP, "text", ":", SP, "text">>,
      <<START_MARKER, NL, KEY_FIXED, ":", SP, "NO", NL, END_MARKER>> }

\* the field maps with str keys and str values of at most MaxMapSize entries
RtMaps ==
    UNION { [ks -> {StrVal(v) : v \in RtValues}] :
            ks \in {x \in SUBSET RtKeys : Cardinality(x) <= MaxMapSize} }

\* the orders in which the entries of a dict can have been inserted
InsertionOrders(ks) ==
    {o \in [1..Cardinality(ks) -> ks] :
        \A i, j \in 1..Cardinality(ks) : i # j => o[i] # o[j]}

\* one "key: value" line per entry, in the order o, from entry i on
RECURSIVE FormatLines(_, _, _)
FormatLines(m, o, i) ==
    IF i > Len(o) THEN <<>>
    ELSE o[i] \o <<":", SP>> \o m[o[i]].v \o <<NL>> \o FormatLines(m, o, i + 1)

FormatBlock(m, o, fb) ==
    <<START_MARKER, NL>> \o FormatLines(m, o, 1) \o <<END_MARKER, NL>> \o fb

InitRoundTrip ==
    /\ variant = "mock"
    /\ scenario = "any"
    /\ max_iterations = 0
    /\ pc = "idle"
    /\ LoopLocalsInit
    /\ RetryIdle
    /\ ParserIdle
    /\ rt_map \in RtMaps
    /\ rt_feedback \in RtFeedbacks
    /\ rt_input = <<>>
    /\ rt_called = FALSE
    /\ rt_result = ParseResult(EmptyDict, <<>>)
    /\ DSIdle

\* the block is formatted and parsed
CallRoundTrip ==
    /\ ~rt_called
    /\ \E o \in InsertionOrders(DOMAIN rt_map) :
          /\ rt_input' = FormatBlock(rt_map, o, rt_feedback)
          /\ rt_result' = parse_scorecard(FormatBlock(rt_map, o, rt_feedback))
    /\ rt_called' = TRUE
    /\ UNCHANGED <<retry_vars, loop_vars, parse_vars, ds_vars, rt_map, rt_feedback>>

NextRoundTrip == CallRoundTrip

SpecRoundTrip == InitRoundTrip /\ [][NextRoundTrip]_vars


(***************************************************************************)
(* Steps of DSStarOrchestrator.run.                                        *)
(***************************************************************************)
InitDS ==
    /\ variant = "mock"
    /\ scenario = "any"
    /\ max_iterations = 0
    /\ pc = "idle"
    /\ LoopLocalsInit
    /\ RetryIdle
    /\ ParserIdle
    /\ RoundTripIdle
    /\ ds_max_iterations \in 0..DSMaxIterBound
    /\ ds_pc = "analyze"
    /\ files \in InitialFiles
    /\ DSConstructed
    /\ SessionsIdle

\* analyze_dataset raises FileNotFoundError: the dataset directory is absent
DSAnalyzeRaises ==
    /\ ds_pc = "analyze"
    /\ ds_pc' = "raised"
    /\ ds_fault' = "FileNotFoundError"
    /\ UNCHANGED <<retry_vars, loop_vars, parse_vars, rt_vars, session_vars, ds_max_iterations,
                   ds_iteration, current_plan, current_step,
                   accumulated_plan, current_code, files, payloads, launched,
                   child, execution_success, execution_result, reasoning,
                   action, router_return, planner_op, plan_before, coder_args, verifier_args, finalizer_args,
                   ds_calls, ds_retval>>

\* analyze_dataset returns and generate_initial_step appends the step p_0
DSStart ==
    /\ ds_pc = "analyze"
    /\ ds_pc' = "loop"
    /\ ds_calls' = [ds_calls EXCEPT !["Planner"] = @ + 1]
    /\ LET p == generate_initial_step(current_plan, ds_calls'["Planner"])
       IN  /\ current_plan' = p.plan
           /\ current_step' = p.step
    /\ planner_op' = PlannerOp("generate_initial_step", 0, FALSE)
    /\ plan_before' = current_plan
    /\ UNCHANGED <<retry_vars, loop_vars, parse_vars, rt_vars, session_vars, ds_max_iterations,
                   ds_iteration, accumulated_plan, current_code, files,
                   payloads, launched, child, execution_success,
                   execution_result, reasoning, action, router_return, coder_args,
                   verifier_args, finalizer_args, ds_retval, ds_fault>>

\* the next round starts: get_full_plan and generate_code
GenerateCode ==
    /\ ds_pc = "loop"
    /\ ds_iteration < ds_max_iterations
    /\ ds_iteration' = ds_iteration + 1
    /\ accumulated_plan' = get_full_plan(current_plan)
    /\ coder_args' = [current_step |-> current_step,
                      accumulated_plan |-> get_full_plan(current_plan)]
    /\ ds_calls' = [ds_calls EXCEPT !["Coder"] = @ + 1]
    /\ \E code \in Payloads :
          /\ current_code' = code
          /\ payloads' = Append(payloads, code)
    /\ ds_pc' = "write"
    /\ UNCHANGED <<retry_vars, loop_vars, parse_vars, rt_vars, session_vars, ds_max_iterations,
                   current_plan, current_step, files, launched, child,
                   execution_success, execution_result, reasoning, action, router_return, planner_op, plan_before,
                   verifier_args, finalizer_args, ds_retval, ds_fault>>

\* execute_script: the payload is written to script_path
WriteScript ==
    /\ ds_pc = "write"
    /\ ds_calls' = [ds_calls EXCEPT !["Sandbox"] = @ + 1]
    /\ files' = DictSet(files, script_path(ds_iteration), current_code)
    /\ ds_pc' = "launch"
    /\ UNCHANGED <<retry_vars, loop_vars, parse_vars, rt_vars, session_vars, ds_max_iterations,
                   ds_iteration, current_plan, current_step,
                   accumulated_plan, current_code, payloads, launched, child,
                   execution_success, execution_result, reasoning, action, router_return, planner_op, plan_before,
                   coder_args, verifier_args, finalizer_args, ds_retval,
                   ds_fault>>

\* execute_script: open() or f.write() raises (directory removed, no
\* permission, disk full, text that cannot be encoded); the statement is
\* outside the try block, the file is absent, untouched or truncated
WriteScriptRaises ==
    /\ ds_pc = "write"
    /\ ds_calls' = [ds_calls EXCEPT !["Sandbox"] = @ + 1]
    /\ \/ UNCHANGED files
       \/ files' = DictSet(files, script_path(ds_iteration), "")
    /\ ds_pc' = "raised"
    /\ ds_fault' = "PayloadWriteError"
    /\ UNCHANGED <<retry_vars, loop_vars, parse_vars, rt_vars, session_vars, ds_max_iterations,
                   ds_iteration, current_plan, current_step,
                   accumulated_plan, current_code, payloads, launched, child,
                   execution_success, execution_result, reasoning, action, router_return, planner_op, plan_before,
                   coder_args, verifier_args, finalizer_args, ds_retval>>

\* execute_script: the child runs the file and execute_script returns
RunScript ==
    /\ ds_pc = "launch"
    /\ \E c \in ChildRuns :
          LET r == execute_script_try(c)
          IN  /\ child' = c
              /\ launched' = Append(launched, files[script_path(ds_iteration)])
              /\ IF r.raised
                 THEN /\ ds_pc' = "raised"
                      /\ ds_fault' = "TimeoutExpired"
                      /\ UNCHANGED <<execution_success, execution_result>>
                 ELSE /\ ds_pc' = "verify"
                      /\ execution_success' = r.success
                      /\ execution_result' = r.output
                      /\ UNCHANGED ds_fault
    /\ UNCHANGED <<retry_vars, loop_vars, parse_vars, rt_vars, session_vars, ds_max_iterations,
                   ds_iteration, current_plan, current_step,
                   accumulated_plan, current_code, files, payloads,
                   reasoning, action, router_return, planner_op, plan_before, coder_args, verifier_args,
                   finalizer_args, ds_calls, ds_retval>>

\* a run that finalizes only when the script execution succeeded too
VerifyRequiresExecutionSuccess ==
    /\ ds_pc = "verify"
    /\ verifier_args' = VerifierCall(accumulated_plan, current_code,
                                     execution_result, execution_success)
    /\ \E evaluation \in VerifierTexts :
          /\ reasoning' = evaluation
          /\ IF evaluate_sufficiency(evaluation) = "SUFFICIENT"
                /\ execution_success
             THEN /\ finalizer_args' =
                        [final_code |-> current_code,
                         accumulated_plan |-> accumulated_plan]
                  /\ ds_calls' = [ds_calls EXCEPT !["Verifier"] = @ + 1,
                                                  !["Finalyzer"] = @ + 1]
                  /\ ds_retval' = "True"
                  /\ ds_pc' = "done"
             ELSE /\ ds_calls' = [ds_calls EXCEPT !["Verifier"] = @ + 1]
                  /\ ds_pc' = "route"
                  /\ UNCHANGED <<finalizer_args, ds_retval>>
    /\ UNCHANGED <<retry_vars, loop_vars, parse_vars, rt_vars, session_vars, ds_max_iterations,
                   ds_iteration, current_plan, current_step,
                   accumulated_plan, current_code, files, payloads, launched,
                   child, execution_success, execution_result, action, router_return, planner_op, plan_before,
                   coder_args, ds_fault>>

\* evaluate_sufficiency, and on SUFFICIENT finalize_output and return True
Verify ==
    /\ ds_pc = "verify"
    /\ verifier_args' = VerifierCall(accumulated_plan, current_code,
                                     execution_result, execution_success)
    /\ \E evaluation \in VerifierTexts :
          /\ reasoning' = evaluation
          /\ IF evaluate_sufficiency(evaluation) = "SUFFICIENT"
             THEN /\ finalizer_args' =
                        [final_code |-> current_code,
                         accumulated_plan |-> accumulated_plan]
                  /\ ds_calls' = [ds_calls EXCEPT !["Verifier"] = @ + 1,
                                                  !["Finalyzer"] = @ + 1]
                  /\ ds_retval' = "True"
                  /\ ds_pc' = "done"
             ELSE /\ ds_calls' = [ds_calls EXCEPT !["Verifier"] = @ + 1]
                  /\ ds_pc' = "route"
                  /\ UNCHANGED <<finalizer_args, ds_retval>>
    /\ UNCHANGED <<retry_vars, loop_vars, parse_vars, rt_vars, session_vars, ds_max_iterations,
                   ds_iteration, current_plan, current_step,
                   accumulated_plan, current_code, files, payloads, launched,
                   child, execution_success, execution_result, action, router_return, planner_op, plan_before,
                   coder_args, ds_fault>>

\* a loop that leaves the last budgeted round before its Router and Planner
RouteSkipsLastRound ==
    IF ds_iteration >= ds_max_iterations
    THEN /\ ds_pc = "route"
         /\ ds_pc' = "loop"
         /\ UNCHANGED <<retry_vars, loop_vars, parse_vars, rt_vars, session_vars,
                        ds_max_iterations, ds_iteration, current_plan,
                        current_step, accumulated_plan, current_code,
                        files, payloads, launched, child,
                        execution_success, execution_result, reasoning,
                        action, router_return, planner_op, plan_before,
                        coder_args, verifier_args, finalizer_args,
                        ds_calls, ds_retval, ds_fault>>
    ELSE
        /\ ds_pc = "route"
        /\ ds_calls' = [ds_calls EXCEPT !["Router"] = @ + 1, !["Planner"] = @ + 1]
        /\ \E decision \in RouterTexts :
              LET d == decide_action(decision)
                  p == ApplyRefinement(current_plan, d, ds_calls'["Planner"])
              IN  /\ router_return' = d
                  /\ action' = d.action
                  /\ current_plan' = p.plan
                  /\ current_step' = p.step
                  /\ planner_op' = AppliedOp(d, p)
                  /\ plan_before' = current_plan
        /\ ds_pc' = "loop"
        /\ UNCHANGED <<retry_vars, loop_vars, parse_vars, rt_vars, session_vars, ds_max_iterations,
                       ds_iteration, accumulated_plan, current_code, files,
                       payloads, launched, child, execution_success,
                       execution_result, reasoning, coder_args, verifier_args,
                       finalizer_args, ds_retval, ds_fault>>

\* decide_action and the refinement of the plan it selects
Route ==
    /\ ds_pc = "route"
    /\ ds_calls' = [ds_calls EXCEPT !["Router"] = @ + 1, !["Planner"] = @ + 1]
    /\ \E decision \in RouterTexts :
          LET d == decide_action(decision)
              p == ApplyRefinement(current_plan, d, ds_calls'["Planner"])
          IN  /\ router_return' = d
              /\ action' = d.action
              /\ current_plan' = p.plan
              /\ current_step' = p.step
              /\ planner_op' = AppliedOp(d, p)
              /\ plan_before' = current_plan
    /\ ds_pc' = "loop"
    /\ UNCHANGED <<retry_vars, loop_vars, parse_vars, rt_vars, session_vars, ds_max_iterations,
                   ds_iteration, accumulated_plan, current_code, files,
                   payloads, launched, child, execution_success,
                   execution_result, reasoning, coder_args, verifier_args,
                   finalizer_args, ds_retval, ds_fault>>

\* the for loop is over: return False
DSExhausted ==
    /\ ds_pc = "loop"
    /\ ds_iteration >= ds_max_iterations
    /\ ds_retval' = "False"
    /\ ds_pc' = "done"
    /\ UNCHANGED <<retry_vars, loop_vars, parse_vars, rt_vars, session_vars, ds_max_iterations,
                   ds_iteration, current_plan, current_step,
                   accumulated_plan, current_code, files, payloads, launched,
                   child, execution_success, execution_result, reasoning,
                   action, router_return, planner_op, plan_before, coder_args, verifier_args, finalizer_args,
                   ds_calls, ds_fault>>

NextDS ==
    \/ DSAnalyzeRaises
    \/ DSStart
    \/ GenerateCode
    \/ WriteScript
    \/ WriteScriptRaises
    \/ RunScript
    \/ Verify
    \/ Route
    \/ DSExhausted

SpecDS == InitDS /\ [][NextDS]_vars


(***************************************************************************)
(* The operations of one PlannerAgent, called in any sequence and with any *)
(* step_index (specification SpecPlanner).  ds_calls["Planner"] counts the *)
(* steps the Planner's LLM has written; a step is named by that count.     *)
(***************************************************************************)
MaxPlannerCalls == 5
MaxStepIndex == 6

\* the values of the int parameter step_index
StepIndexes == (0 - MaxStepIndex)..MaxStepIndex

\* the variables of run that no Planner operation touches
run_locals ==
    <<ds_max_iterations, ds_pc, ds_iteration, current_code, payloads,
      launched, child, execution_success, execution_result, reasoning,
      action, router_return, coder_args, verifier_args, finalizer_args,
      ds_retval, ds_fault>>

\* a PlannerAgent that __init__ has built: current_plan is []
InitPlanner ==
    /\ variant = "mock"
    /\ scenario = "any"
    /\ max_iterations = 0
    /\ pc = "idle"
    /\ LoopLocalsInit
    /\ RetryIdle
    /\ ParserIdle
    /\ RoundTripIdle
    /\ ds_max_iterations = 0
    /\ ds_pc = "planner"
    /\ files = [n \in {} |-> <<>>]
    /\ DSConstructed
    /\ SessionsIdle

\* the outcome p of a Planner operation is stored: an operation that
\* raised has not called the LLM and has left the plan as it was
PlannerReturns(op, step_index, p) ==
    /\ planner_op' = PlannerOp(op, step_index, p.raised)
    /\ plan_before' = current_plan
    /\ current_plan' = p.plan
    /\ IF p.raised
       THEN UNCHANGED <<current_step, ds_calls>>
       ELSE /\ current_step' = p.step
            /\ ds_calls' = [ds_calls EXCEPT !["Planner"] = @ + 1]
    /\ UNCHANGED <<retry_vars, loop_vars, parse_vars, rt_vars, session_vars, run_locals, files,
                   accumulated_plan>>

CallGenerateInitialStep ==
    /\ ds_pc = "planner"
    /\ ds_calls["Planner"] < MaxPlannerCalls
    /\ PlannerReturns("generate_initial_step", 0,
                      generate_initial_step(current_plan,
                                            ds_calls["Planner"] + 1))

CallAddStep ==
    /\ ds_pc = "planner"
    /\ ds_calls["Planner"] < MaxPlannerCalls
    /\ PlannerReturns("add_step", 0,
                      add_step(current_plan, ds_calls["Planner"] + 1))

CallCorrectStep ==
    /\ ds_pc = "planner"
    /\ ds_calls["Planner"] < MaxPlannerCalls
    /\ \E step_index \in StepIndexes :
          PlannerReturns("correct_step", step_index,
                         correct_step(current_plan, step_index,
                                      ds_calls["Planner"] + 1))

\* get_full_plan renders the plan; the plan is not changed
CallGetFullPlan ==
    /\ ds_pc = "planner"
    /\ accumulated_plan' = get_full_plan(current_plan)
    /\ planner_op' = PlannerOp("get_full_plan", 0, FALSE)
    /\ plan_before' = current_plan
    /\ UNCHANGED <<retry_vars, loop_vars, parse_vars, rt_vars, session_vars, run_locals, files,
                   current_plan, current_step, ds_calls>>

NextPlanner ==
    \/ CallGenerateInitialStep
    \/ CallAddStep
    \/ CallCorrectStep
    \/ CallGetFullPlan

SpecPlanner == InitPlanner /\ [][NextPlanner]_vars


(***************************************************************************)
(* Two DSStarOrchestrator instances in one working directory, their rounds *)
(* interleaved in any order (specification SpecSessions).  Each instance   *)
(* has its own agents and ExecutionEngine; every ExecutionEngine is built  *)
(* with the module constant TEMP_SCRIPT_DIR and every FinalyzerAgent with  *)
(* OUTPUT_DIR.  A round is one step here: the payload write succeeds and   *)
(* the child runs the file just written.                                   *)
(***************************************************************************)
Instances == {"A", "B"}

\* self.output_dir / "final_analysis.py"
final_script_path == <<"final_analysis", 0>>

\* the run of an instance before its first round
NewSession(m) ==
    [pc |-> "loop", max_iterations |-> m, iteration |-> 0,
     payloads |-> <<>>, launched |-> <<>>, retval |-> "none"]

InitSessions ==
    /\ variant = "mock"
    /\ scenario = "any"
    /\ max_iterations = 0
    /\ pc = "idle"
    /\ LoopLocalsInit
    /\ RetryIdle
    /\ ParserIdle
    /\ RoundTripIdle
    /\ ds_max_iterations = 0
    /\ ds_pc = "idle"
    /\ files = [n \in {} |-> <<>>]
    /\ DSConstructed
    /\ sessions \in [Instances -> {NewSession(m) : m \in 1..DSMaxIterBound}]
    /\ file_owner = [n \in {} |-> 0]

\* the file is written by instance s
WriteFile(fs, owner, s, path, content) ==
    [files |-> DictSet(fs, path, content),
     owner |-> DictSet(owner, path, s)]

\* one round of the run of instance s: generate_code, execute_script with
\* the round's number, evaluate_sufficiency; on SUFFICIENT finalize_output
\* writes final_analysis.py and run returns True
SessionRound(s) ==
    /\ sessions[s].pc = "loop"
    /\ sessions[s].iteration < sessions[s].max_iterations
    /\ \E code \in Payloads, evaluation \in VerifierTexts :
          LET k == sessions[s].iteration + 1
              w == WriteFile(files, file_owner, s, script_path(k), code)
              sufficient == evaluate_sufficiency(evaluation) = "SUFFICIENT"
              f == IF sufficient
                   THEN WriteFile(w.files, w.owner, s, final_script_path,
                                  "Mock response from Finalyzer")
                   ELSE w
          IN  /\ files' = f.files
              /\ file_owner' = f.owner
              /\ sessions' =
                    [sessions EXCEPT
                       ![s].iteration = k,
                       ![s].payloads = Append(@, code),
                       ![s].launched = Append(@, w.files[script_path(k)]),
                       ![s].pc = IF sufficient THEN "done" ELSE "loop",
                       ![s].retval = IF sufficient THEN "True" ELSE @]
    /\ UNCHANGED <<retry_vars, loop_vars, parse_vars, rt_vars, run_locals, current_plan,
                   current_step, accumulated_plan, planner_op, plan_before,
                   ds_calls>>

\* the for loop of instance s is over: return False
SessionExhausted(s) ==
    /\ sessions[s].pc = "loop"
    /\ sessions[s].iteration >= sessions[s].max_iterations
    /\ sessions' = [sessions EXCEPT ![s].pc = "done", ![s].retval = "False"]
    /\ UNCHANGED <<retry_vars, loop_vars, parse_vars, rt_vars, run_locals, current_plan,
                   current_step, accumulated_plan, planner_op, plan_before,
                   ds_calls, files, file_owner>>

NextSessions ==
    \/ \E s \in Instances : SessionRound(s)
    \/ \E s \in Instances : SessionExhausted(s)

SpecSessions == InitSessions /\ [][NextSessions]_vars

(***************************************************************************)
(* call_gemini_with_retry (gemini_utils.py).  One call of the function:    *)
(* every turn of its for loop calls generate_content once; events records  *)
(* the attempts and the sleeps in the order they happen.  Delays are in    *)
(* whole seconds.                                                          *)
(***************************************************************************)
\* largest max_retries a call is made with
MaxRetriesBound == 3
\* largest initial_delay a call is made with
MaxInitialDelay == 2

\* response.text of a response: empty, or one of two texts
ResponseTexts == {"", "text 1", "text 2"}

\* what generate_content does in one attempt: it raises, or it returns a
\* response with a text and with or without prompt_feedback
GenerateOutcomes ==
    {[raised |-> TRUE, text |-> "", prompt_feedback |-> FALSE]}
    \cup {[raised |-> FALSE, text |-> t, prompt_feedback |-> b] :
            t \in ResponseTexts, b \in BOOLEAN}

\* the exception the try block ends with for outcome o ("none": it returns)
AttemptError(o) ==
    IF o.raised THEN "generate_content raised"
    ELSE IF o.text = ""
    THEN IF o.prompt_feedback THEN "Response blocked"
         ELSE "Empty response received from Gemini API"
    ELSE "none"

\* a test that takes the turn after the last one for the last attempt
IsLastAttemptOffByOne(attempt_no, retries) == attempt_no = retries

\* attempt == max_retries - 1
IsLastAttempt(attempt_no, retries) == attempt_no = retries - 1

\* a backoff that keeps the delay
NextDelayConstant(d) == d

\* delay *= 2
NextDelay(d) == d * 2

\* an attempt with outcome o; error is the exception the handler caught
AttemptEvent(o) ==
    [ev |-> "attempt", failed |-> AttemptError(o) # "none",
     error |-> AttemptError(o), text |-> o.text, secs |-> 0]
\* time.sleep(d)
SleepEvent(d) ==
    [ev |-> "sleep", failed |-> FALSE, error |-> "none", text |-> "",
     secs |-> d]

\* the call has returned value
RetryReturned(value) ==
    [kind |-> "returned", value |-> value, attempts |-> 0, error |-> "none"]
\* the call has raised "Gemini API call failed after n attempts: e"
RetryRaised(n, e) ==
    [kind |-> "raised", value |-> "", attempts |-> n, error |-> e]

InitRetry ==
    /\ variant = "mock"
    /\ scenario = "any"
    /\ max_iterations = 0
    /\ pc = "idle"
    /\ LoopLocalsInit
    /\ ParserIdle
    /\ RoundTripIdle
    /\ DSIdle
    /\ max_retries \in 0..MaxRetriesBound
    /\ initial_delay \in 0..MaxInitialDelay
    /\ retry_pc = "for"
    /\ attempt = 0
    /\ delay = initial_delay
    /\ events = <<>>
    /\ retry_result = NoRetryResult

\* a turn of the for loop whose try block returns response.text
RetryAttemptReturns ==
    /\ retry_pc = "for"
    /\ attempt < max_retries
    /\ \E o \in GenerateOutcomes :
          /\ AttemptError(o) = "none"
          /\ events' = Append(events, AttemptEvent(o))
          /\ retry_result' = RetryReturned(o.text)
    /\ retry_pc' = "done"
    /\ UNCHANGED <<loop_vars, parse_vars, rt_vars, ds_vars, max_retries,
                   initial_delay, attempt, delay>>

\* a turn of the for loop whose try block raises: the handler re-raises in
\* the last turn and otherwise sleeps and doubles the delay
RetryAttemptFails ==
    /\ retry_pc = "for"
    /\ attempt < max_retries
    /\ \E o \in GenerateOutcomes :
          /\ AttemptError(o) # "none"
          /\ IF IsLastAttempt(attempt, max_retries)
             THEN /\ events' = Append(events, AttemptEvent(o))
                  /\ retry_result' = RetryRaised(max_retries, AttemptError(o))
                  /\ retry_pc' = "raised"
                  /\ UNCHANGED <<attempt, delay>>
             ELSE /\ events' = events \o <<AttemptEvent(o), SleepEvent(delay)>>
                  /\ delay' = NextDelay(delay)
                  /\ attempt' = attempt + 1
                  /\ UNCHANGED <<retry_result, retry_pc>>
    /\ UNCHANGED <<loop_vars, parse_vars, rt_vars, ds_vars, max_retries,
                   initial_delay>>

\* range(max_retries) is used up: the function body ends without a return
\* statement and the call returns None
RetryLoopEnds ==
    /\ retry_pc = "for"
    /\ attempt >= max_retries
    /\ retry_result' = RetryReturned("<None>")
    /\ retry_pc' = "done"
    /\ UNCHANGED <<loop_vars, parse_vars, rt_vars, ds_vars, max_retries,
                   initial_delay, attempt, delay, events>>

NextRetry ==
    \/ RetryAttemptReturns
    \/ RetryAttemptFails
    \/ RetryLoopEnds

SpecRetry == InitRetry /\ [][NextRetry]_vars

\* every generate_content call returns or raises, and the interpreter
\* takes the next step of the function
SpecRetryLive == SpecRetry /\ WF_vars(NextRetry)

(***************************************************************************)
(* Properties of run_refinement_loop (specification Spec).                 *)
(***************************************************************************)
\* the critic text of the current round has been parsed and decided on
RoundDecided == critic_calls > 0 /\ pc # "decide"

\* the text yields Previous_Kill_List_Fixed == YES after upper-casing
YieldsYes(v, text) ==
    LET value == FixedField(Parser(v, text).scorecard)
    IN  value.type = "str" /\ UpperText(value.v) = <<"YES">>

\* C1: a round whose raw critic text contains REJECTED (any case, anywhere)
\* terminates the loop with the rejected outcome in that round, also when
\* Previous_Kill_List_Fixed is YES; success never comes from such a round.
C1_RejectionDominates ==
    (RoundDecided /\ ContainsRejected(full_review_response))
        => (pc = "done" /\ outcome = "REJECTED")

C3_ExhaustedAfterBudget ==
    /\ outcome = "EXHAUSTED"
          => drafter_calls = max_iterations /\ critic_calls = max_iterations
    /\ ( /\ max_iterations >= 1
         /\ critic_calls = max_iterations
         /\ RoundDecided
         /\ pc \in {"done", "raised"}
         /\ fault # "CollaboratorFault"
         /\ ~ContainsRejected(full_review_response)
         /\ ~YieldsYes(variant, full_review_response) )
          => outcome = "EXHAUSTED"

\* C4 as stated: the value returned for the outcome reached differs from
\* the value every other outcome would have returned.
C4_AllOutcomesDistinguishable ==
    pc = "done"
        => \A o \in Outcomes \ {outcome} :
              ReturnValue(variant, o, final_document) # retval

\* C4 as amended: the return value tells success from the two failures
\* (True against False in its boolean), and REJECTED and EXHAUSTED return
\* the same value: False, with the last document in the live variant.
C4_SuccessDistinguishable ==
    pc = "done"
        => /\ outcome \in Outcomes
           /\ retval.success <=> (outcome = "SUCCESS")
           /\ outcome \in {"REJECTED", "EXHAUSTED"}
                 => retval = Returned(variant, FALSE, final_document)

C4_Witness ==
    /\ pc = "done"
    /\ outcome = "REJECTED"
    /\ retval = ReturnValue(variant, "EXHAUSTED", final_document)

\* C5: provided every collaborator call returns, a session ends with exactly
\* one terminal outcome after at most max_iterations rounds: it never ends
\* without an outcome unless a collaborator raised.
C5_EndsWithOneOutcome ==
    /\ pc = "raised" => fault = "CollaboratorFault"
    /\ pc = "done" => outcome \in Outcomes
    /\ outcome # "none" => pc = "done"
    /\ iteration <= max_iterations

\* C6: with the Scenario 1 reviewer sequence run_refinement_loop returns
\* success after exactly 3 reviewer invocations.
C6_HappyPathThreeAudits ==
    (scenario = "happy" /\ pc = "done")
        => (outcome = "SUCCESS" /\ retval.success /\ critic_calls = 3)

\* C7: when the first REJECTED appears in the critic text of round k the loop
\* stops in round k: Critic invoked k times, Strategist k-1 times, and no
\* collaborator is invoked afterwards.
C7_StopsAtRejection ==
    rejected_round # 0
        => /\ iteration = rejected_round
           /\ drafter_calls = rejected_round
           /\ critic_calls = rejected_round
           /\ strategist_calls = rejected_round - 1
           /\ pc \in {"decide", "done", "raised"}

C7_Witness ==
    /\ rejected_round = 2
    /\ pc = "done"
    /\ outcome = "REJECTED"
    /\ "rejected" \in {full_review_response[i] : i \in 1..Len(full_review_response)}

\* C8: the carried outstanding-issues text is empty in round 1; at the start
\* of round k+1 it is the stripped feedback the parser extracted from round
\* k's critic text; Drafter and Critic of one round get the same carried
\* value; a round ending in success or rejection does not overwrite it.
C8_CarriedFeedback ==
    /\ drafter_calls = 1 => drafter_args.kill_list = <<>>
    /\ critic_calls = 1 => critic_args.kill_list = <<>>
    /\ (iteration >= 2 /\ pc = "audit")
          => /\ previous_kill_list =
                   Strip(Parser(variant, full_review_response).audit_report)
             /\ drafter_args.kill_list = previous_kill_list
    /\ (critic_calls > 0 /\ critic_calls = drafter_calls)
          => critic_args.kill_list = drafter_args.kill_list
    /\ (pc = "done" /\ outcome \in {"SUCCESS", "REJECTED"})
          => previous_kill_list = critic_args.kill_list

C8_Witness ==
    /\ iteration = 2
    /\ pc = "audit"
    /\ previous_kill_list = <<"text">>
    /\ Parser(variant, full_review_response).audit_report # <<"text">>

(***************************************************************************)
(* Properties of the parsers (specification SpecParse).                    *)
(***************************************************************************)
HasStartMarker(x) == \E i \in 1..Len(x) : IsStartMarker(x[i])
HasEndMarker(x) == \E i \in 1..Len(x) : IsEndMarker(x[i])

\* C9: for an input without the start marker (any case) parse_scorecard and
\* extract_scorecard return an empty field map and the whole unmodified
\* input as feedback, also when the end marker alone is present.
C9_NoStartMarker ==
    ~HasStartMarker(parse_input)
        => /\ router_called
                 => router_result = ParseResult(EmptyDict, parse_input)
           /\ gemini_called
                 => gemini_result = ParseResult(EmptyDict, parse_input)

C9_Witness ==
    /\ router_called
    /\ gemini_called
    /\ ~HasStartMarker(parse_input)
    /\ HasEndMarker(parse_input)
    /\ Strip(parse_input) # parse_input

\* the field section of x begins with '{' and json.loads rejects it
MalformedJsonSection(x) ==
    /\ IsStr(x)
    /\ SplitAtMarkers(x).found
    /\ LooksLikeJson(SplitAtMarkers(x).section)
    /\ ~json_loads(SplitAtMarkers(x).section).ok

\* C10 as stated: parse_scorecard never raises, and on every internal
\* failure, a field section that begins with '{' but is not a valid
\* structured object included, it returns ({}, raw input).
C10_EveryFailureGivesEmpty ==
    router_called
        => /\ ~router_result.exc
           /\ (~IsStr(parse_input) \/ MalformedJsonSection(parse_input))
                 => router_result = ParseResult(EmptyDict, parse_input)

\* C10 as amended: parse_scorecard never raises; a field section that begins
\* with '{' but is not a valid structured object is parsed on the
\* line-oriented path and the cleaned feedback is returned with it; a
\* failure outside the structured-object decode returns ({}, raw input).
C10_MalformedJsonFallsBack ==
    router_called
        => /\ ~router_result.exc
           /\ MalformedJsonSection(parse_input)
                 => router_result =
                       ParseResult(LineParse(SplitAtMarkers(parse_input).section),
                                   _clean_kill_list(
                                       SplitAtMarkers(parse_input).audit_report))
           /\ ~IsStr(parse_input)
                 => router_result = ParseResult(EmptyDict, parse_input)

C10_Witness ==
    /\ router_called
    /\ MalformedJsonSection(parse_input)
    /\ router_result.scorecard # EmptyDict
    /\ router_result.audit_report # parse_input

\* C11: whatever the status block of the critic text contains, the
\* parse-and-decide step of a round does not raise: the only exception that
\* can leave a session comes from a collaborator (or from the exhausted
\* report), never from reading the parsed field map.
C11_DecideNeverRaises ==
    RoundDecided => fault # "AttributeError"

(***************************************************************************)
(* Slicing of the text by parse_scorecard (specification SpecParse).       *)
(***************************************************************************)
\* position of the first start marker of x (x has one)
FirstStart(x) ==
    CHOOSE i \in 1..Len(x) :
        IsStartMarker(x[i]) /\ \A j \in 1..(i - 1) : ~IsStartMarker(x[j])

\* an end marker follows the first start marker of x
EndFollowsStart(x) ==
    /\ IsStr(x)
    /\ HasStartMarker(x)
    /\ \E i \in (FirstStart(x) + 1)..Len(x) : IsEndMarker(x[i])

\* position of the first end marker after the first start marker
FirstEndAfterStart(x) ==
    CHOOSE i \in (FirstStart(x) + 1)..Len(x) :
        IsEndMarker(x[i])
        /\ \A j \in (FirstStart(x) + 1)..(i - 1) : ~IsEndMarker(x[j])

\* the text strictly between the two markers, and strictly after the second
TextBetween(x) == SubSeq(x, FirstStart(x) + 1, FirstEndAfterStart(x) - 1)
TextAfterEnd(x) == Suffix(x, FirstEndAfterStart(x) + 1)
TextAfterStart(x) == Suffix(x, FirstStart(x) + 1)

\* the field section is decoded as a structured object
OnJsonPath(section) == LooksLikeJson(section) /\ json_loads(section).ok

\* the field map a field section stands for
FieldMapOf(section) ==
    IF OnJsonPath(section) THEN json_loads(section).obj
    ELSE LineParse(section)

\* a lettered header begins some line of s, or s has three newlines in a row
HasHeaderOrBlankRun(s) ==
    \/ \E i \in 1..Len(s) : AtLineStart(s, i) /\ s[i] = HDR
    \/ \E i \in 1..(Len(s) - 2) : s[i] = NL /\ s[i + 1] = NL /\ s[i + 2] = NL

\* C12 as stated: with both markers present the field section is the text
\* strictly between them and the feedback is the text strictly after the
\* end marker with only leading and trailing whitespace removed.
C12_FeedbackOnlyTrimmed ==
    (router_called /\ EndFollowsStart(parse_input))
        => /\ router_result.scorecard
                 = FieldMapOf(Strip(TextBetween(parse_input)))
           /\ router_result.audit_report = Strip(TextAfterEnd(parse_input))

\* C12 as amended: the field section is the text strictly between the
\* markers; the feedback is the trimmed text after the end marker on the
\* structured-object path, and that text passed through _clean_kill_list
\* on the line-oriented path, which leaves it as it is unless it has a
\* lettered header at a line start or a run of three newlines.
C12_FeedbackCleaned ==
    (router_called /\ EndFollowsStart(parse_input))
        => LET section == Strip(TextBetween(parse_input))
               after == Strip(TextAfterEnd(parse_input))
           IN  /\ router_result.scorecard = FieldMapOf(section)
               /\ OnJsonPath(section) => router_result.audit_report = after
               /\ ~OnJsonPath(section)
                     => /\ router_result.audit_report
                              = _clean_kill_list(after)
                        /\ ~HasHeaderOrBlankRun(after)
                              => router_result.audit_report = after

C12_Witness ==
    /\ router_called
    /\ EndFollowsStart(parse_input)
    /\ router_result.audit_report # Strip(TextAfterEnd(parse_input))
    /\ router_result.audit_report # <<>>
    /\ router_result.scorecard # EmptyDict

\* C13: with the start marker present and no end marker after it,
\* parse_scorecard (and extract_scorecard) take all the text after the start
\* marker as field section and return an empty feedback text.
C13_NoEndMarker ==
    (IsStr(parse_input) /\ HasStartMarker(parse_input)
                        /\ ~EndFollowsStart(parse_input))
        => LET section == Strip(TextAfterStart(parse_input))
           IN  /\ router_called
                     => router_result = ParseResult(FieldMapOf(section), <<>>)
               /\ gemini_called
                     => gemini_result = ParseResult(LineParse(section), <<>>)

C13_Witness ==
    /\ router_called
    /\ HasStartMarker(parse_input)
    /\ ~EndFollowsStart(parse_input)
    /\ FirstStart(parse_input) > 1
    /\ router_result.scorecard # EmptyDict
    /\ router_result.audit_report = <<>>

(***************************************************************************)
(* The line-oriented path (specification SpecParse).                       *)
(***************************************************************************)
\* the lines of the field section of x; a line trimmed and without '*[]'
SectionLines(x) == SplitLines(SplitAtMarkers(x).section, 1, <<>>)
LineHasColon(l) == \E i \in 1..Len(l) : l[i] = ":"
Undecorated(l) == RemoveDeco(Strip(l))

\* position of the first colon of a line that has one
FirstColon(l) ==
    CHOOSE i \in 1..Len(l) : l[i] = ":" /\ \A j \in 1..(i - 1) : l[j] # ":"

KeyOf(l) == Strip(SubSeq(Undecorated(l), 1, FirstColon(Undecorated(l)) - 1))
ValueOf(l) == Strip(Suffix(Undecorated(l), FirstColon(Undecorated(l)) + 1))

\* the field map that the lines  ls[i], i \in contributing,  give when
\* each is split at its first colon and the last occurrence of a key wins
MapOfLines(ls, contributing) ==
    [k \in {KeyOf(ls[i]) : i \in contributing} |->
        LET last == CHOOSE i \in contributing :
                        /\ KeyOf(ls[i]) = k
                        /\ \A j \in contributing : KeyOf(ls[j]) = k => j <= i
        IN  StrVal(ValueOf(ls[last]))]

\* x is parsed on the line-oriented path by parse_scorecard
RouterOnLinePath(x) ==
    /\ IsStr(x)
    /\ SplitAtMarkers(x).found
    /\ ~OnJsonPath(SplitAtMarkers(x).section)

\* C14 as stated: every line of the field section that contains a colon
\* contributes one entry (decoration removed, split at the first colon, key
\* and value trimmed, last occurrence of a key wins); other lines none.
C14_EveryColonLineContributes ==
    LET ls == SectionLines(parse_input)
        m == MapOfLines(ls, {i \in 1..Len(ls) : LineHasColon(ls[i])})
    IN  /\ (router_called /\ RouterOnLinePath(parse_input))
              => router_result.scorecard = m
        /\ (gemini_called /\ IsStr(parse_input)
                          /\ SplitAtMarkers(parse_input).found)
              => gemini_result.scorecard = m

\* C14 as amended: a line contributes one entry when, with '*', '[' and ']'
\* removed, it has at least one character before its first colon; a line
\* whose first remaining character is the colon contributes nothing, like a
\* line without a colon.
C14_ColonLineWithKeyTextContributes ==
    LET ls == SectionLines(parse_input)
        m == MapOfLines(ls, {i \in 1..Len(ls) :
                                /\ LineHasColon(ls[i])
                                /\ FirstColon(Undecorated(ls[i])) > 1})
    IN  /\ (router_called /\ RouterOnLinePath(parse_input))
              => router_result.scorecard = m
        /\ (gemini_called /\ IsStr(parse_input)
                          /\ SplitAtMarkers(parse_input).found)
              => gemini_result.scorecard = m

C14_Witness ==
    LET ls == SectionLines(parse_input)
    IN  /\ router_called
        /\ RouterOnLinePath(parse_input)
        /\ \E i \in 1..Len(ls) :
              LineHasColon(ls[i]) /\ FirstColon(Undecorated(ls[i])) = 1
        /\ \E i \in 1..Len(ls) :
              /\ LineHasColon(ls[i])
              /\ LineHasColon(ValueOf(ls[i]))
              /\ KeyOf(ls[i]) \in DOMAIN router_result.scorecard
        /\ \E i \in 1..Len(ls) : ls[i] # <<>> /\ ~LineHasColon(ls[i])

(***************************************************************************)
(* Round trip (specification SpecRoundTrip).                               *)
(***************************************************************************)
\* a text that the line-oriented path gives back as it is: trimmed, on one
\* line, without '*', '[' and ']' (so without a marker)
SurvivesLinePath(s) ==
    /\ Strip(s) = s
    /\ RemoveDeco(s) = s
    /\ \A i \in 1..Len(s) : s[i] # NL

\* keys are non-empty and without a colon; keys and values survive the
\* line-oriented path; the lines written are not one structured object
WellFormedMap(m) ==
    /\ \A k \in DOMAIN m :
          /\ k # <<>>
          /\ SurvivesLinePath(k)
          /\ ~LineHasColon(k)
          /\ m[k].type = "str"
          /\ SurvivesLinePath(m[k].v)
    /\ \A o \in InsertionOrders(DOMAIN m) :
          ~OnJsonPath(Strip(FormatLines(m, o, 1)))

\* C15 as stated: for every field map M with string keys and values and
\* every feedback F, parsing the formatted block yields a field map equal
\* to M.
C15_RoundTripEveryMap ==
    rt_called => (~rt_result.exc /\ rt_result.scorecard = rt_map)

\* C15 as amended: the round trip yields M for the well-formed field maps:
\* keys non-empty and without a colon, keys and values trimmed, on one line
\* and without '*', '[' and ']', and the written lines not forming one
\* valid structured object; the feedback F does not matter.
C15_RoundTripWellFormed ==
    (rt_called /\ WellFormedMap(rt_map))
        => (~rt_result.exc /\ rt_result.scorecard = rt_map)

C15_Witness ==
    /\ rt_called
    /\ WellFormedMap(rt_map)
    /\ Cardinality(DOMAIN rt_map) = 2
    /\ \E k \in DOMAIN rt_map : LineHasColon(rt_map[k].v)
    /\ HasStartMarker(rt_feedback)
    /\ rt_result.scorecard = rt_map

(***************************************************************************)
(* Properties of the Execution Sandbox and of the analysis loop            *)
(* (specification SpecDS).                                                 *)
(***************************************************************************)
\* execute_script has been called in the current round and has returned
SandboxReturned ==
    /\ ds_iteration > 0
    /\ Len(launched) = ds_iteration
    /\ ds_pc # "raised"

\* the Verifier has been invoked in the current round
VerifierInvoked == ds_iteration > 0 /\ ds_calls["Verifier"] = ds_iteration

\* C16: no fault at any step of execute_script (persisting the payload
\* file, launching the child, the child timing out or failing) escapes as
\* an exception; it is returned as (False, "ERROR: ...") or (False, output).
C16_NoFaultEscapes ==
    /\ ds_fault \notin {"PayloadWriteError", "TimeoutExpired"}
    /\ (SandboxReturned /\ child.kind \in {"timeout", "oserror"})
          => (~execution_success /\ Head(execution_result) = "ERROR:")
    /\ (SandboxReturned /\ child.kind = "exit" /\ child.returncode # 0)
          => ~execution_success

\* C17: a child that exceeds the timeout makes execute_script return
\* success = False with an output containing 'timed out', nothing is
\* raised, and the round goes on with the Verifier.
C17_TimeoutReported ==
    (ds_iteration > 0 /\ Len(launched) = ds_iteration
                      /\ child.kind = "timeout")
        => /\ ds_fault = "none"
           /\ ~execution_success
           /\ "timed out" \in Range(execution_result)
           /\ \/ ds_pc = "verify"
              \/ /\ VerifierInvoked
                 /\ ~verifier_args.execution_success
                 /\ verifier_args.execution_result = execution_result

C17_Witness ==
    /\ child.kind = "timeout"
    /\ ds_iteration = 2
    /\ Len(launched) = 2
    /\ ds_pc = "route"
    /\ "timed out" \in Range(verifier_args.execution_result)

\* C18: when the child completes, success is True exactly when its exit
\* status is zero, whatever it printed, and the output is its standard
\* output followed by its standard error.
C18_SuccessIffExitZero ==
    (SandboxReturned /\ child.kind = "exit")
        => /\ execution_success <=> (child.returncode = 0)
           /\ execution_result = child.stdout \o child.stderr

\* C19: in every round the payload is in the file script_iter_<round>
\* before the child is started (the child runs that round's payload), the
\* rounds of a session use pairwise distinct file names, and the file of
\* round k still holds round k's payload in every later round.
C19_PayloadFilePerRound ==
    /\ \A k \in 1..Len(launched) : launched[k] = payloads[k]
    /\ \A k \in 1..ds_iteration :
          (k < ds_iteration \/ ds_pc \notin {"write", "raised"})
              => /\ script_path(k) \in DOMAIN files
                 /\ files[script_path(k)] = payloads[k]
    /\ \A j, k \in 1..ds_iteration : j # k => script_path(j) # script_path(k)

C19_Witness ==
    /\ ds_iteration = 2
    /\ ds_pc = "verify"
    /\ payloads[1] # payloads[2]
    /\ files[script_path(1)] = payloads[1]
    /\ launched[2] = payloads[2]
    /\ Cardinality(DOMAIN files) > 2

\* C20: in a round where execute_script reports (False, diagnostic) the
\* Verifier is still invoked, in that round, with execution_success =
\* False and that diagnostic, and the round then ends in success or goes
\* to the Router like any other round.
C20_FaultFedToVerifier ==
    (SandboxReturned /\ ~execution_success)
        => \/ ds_pc = "verify"
           \/ /\ VerifierInvoked
              /\ verifier_args.execution_success = FALSE
              /\ verifier_args.execution_result = execution_result
              /\ verifier_args.current_code = current_code
              /\ \/ /\ ds_pc = "done"
                    /\ ds_retval = "True"
                    /\ evaluate_sufficiency(reasoning) = "SUFFICIENT"
                    /\ ds_calls["Router"] = ds_iteration - 1
                 \/ /\ ds_pc = "route"
                    /\ evaluate_sufficiency(reasoning) # "SUFFICIENT"
                    /\ ds_calls["Router"] = ds_iteration - 1
                 \/ /\ ds_pc \in {"loop", "done"}
                    /\ ds_retval # "True"
                    /\ evaluate_sufficiency(reasoning) # "SUFFICIENT"
                    /\ ds_calls["Router"] = ds_iteration

C20_Witness ==
    /\ SandboxReturned
    /\ ~execution_success
    /\ child.kind = "oserror"
    /\ ds_pc = "done"
    /\ ds_retval = "True"
    /\ ds_iteration = 2
    /\ verifier_args.execution_result = <<"ERROR:", "cause">>

(***************************************************************************)
(* Properties of DSStarOrchestrator.run: termination (specification        *)
(* SpecDS).                                                                *)
(***************************************************************************)
\* the verifier text signals sufficiency: upper-cased it contains
\* SUFFICIENT and does not contain INSUFFICIENT
SignalsSufficiency(text) ==
    /\ \E i \in 1..Len(text) :
          Upper(text[i]) \in {"SUFFICIENT", "INSUFFICIENT"}
    /\ ~\E i \in 1..Len(text) : Upper(text[i]) = "INSUFFICIENT"

\* C21: run returns True in the first round whose verifier text signals
\* sufficiency, and in no other round: the step that receives such a text
\* ends the run with True, invokes the Finalizer for the first and only
\* time, with the payload of this round and the plan as it was rendered at
\* the start of the round, and invokes neither the Router nor the Planner
\* (their call counts remain those of the earlier rounds); a step that
\* receives any other text does not end the run with True
C21_SuccessAtFirstSufficient ==
    [][/\ (ds_pc = "verify" /\ SignalsSufficiency(reasoning'))
          => /\ ds_pc' = "done"
             /\ ds_retval' = "True"
             /\ ds_calls["Finalyzer"] = 0
             /\ ds_calls'["Finalyzer"] = 1
             /\ finalizer_args'.final_code = payloads[ds_iteration]
             /\ finalizer_args'.accumulated_plan =
                    get_full_plan(current_plan)
             /\ finalizer_args'.accumulated_plan =
                    coder_args.accumulated_plan
             /\ ds_calls'["Router"] = ds_iteration - 1
             /\ ds_calls'["Planner"] = ds_iteration
             /\ current_plan' = current_plan
       /\ (ds_retval' = "True" /\ ds_retval # "True")
          => (ds_pc = "verify" /\ SignalsSufficiency(reasoning'))
      ]_vars

\* a run that returned True in its second round, on a lower-case text
C21_Witness ==
    /\ ds_pc = "done"
    /\ ds_retval = "True"
    /\ ds_iteration = 2
    /\ reasoning = <<"sufficient">>
    /\ ds_calls["Finalyzer"] = 1
    /\ ds_calls["Router"] = 1

\* run has ended, by a return or by an exception, after the one-shot
\* Analyzer step and the initial planning
RunEndedAfterPlanning ==
    /\ ds_pc \in {"done", "raised"}
    /\ ds_calls["Planner"] >= 1

\* C22: a run in which no round's verdict is SUFFICIENT returns False after
\* exactly max_iterations rounds: the Coder, the sandbox and the Verifier
\* were each invoked max_iterations times and the Finalizer never
C22_ExhaustedAfterBudget ==
    (RunEndedAfterPlanning /\ ds_retval # "True")
    => /\ ds_pc = "done"
       /\ ds_retval = "False"
       /\ ds_iteration = ds_max_iterations
       /\ ds_calls["Coder"] = ds_max_iterations
       /\ ds_calls["Sandbox"] = ds_max_iterations
       /\ ds_calls["Verifier"] = ds_max_iterations
       /\ ds_calls["Finalyzer"] = 0

(***************************************************************************)
(* Properties of the Router and of the plan (specification SpecDS).        *)
(***************************************************************************)
\* the text, upper-cased, contains the keyword
HasKeyword(text, words) == \E i \in 1..Len(text) : Upper(text[i]) \in words

\* C23: decide_action returns for every decision text, and what it returns
\* follows the text: CORRECT_STEP with a target index when the text
\* contains CORRECT in any case, also when it contains REMOVE too; else
\* REMOVE_STEP with a target index when it contains REMOVE; else ADD_STEP
\* with no index; the text itself is returned as the feedback
C23_RouterMapping ==
    ds_calls["Router"] >= 1
    => LET text == router_return.feedback
           hasCorrect == HasKeyword(text, {"CORRECT", "CORRECT_STEP"})
           hasRemove == HasKeyword(text, {"REMOVE", "REMOVE_STEP"})
       IN  /\ text \in RouterTexts
           /\ action = router_return.action
           /\ hasCorrect
              => /\ action = "CORRECT_STEP"
                 /\ ~router_return.none
                 /\ router_return.step_index \in Nat
           /\ (~hasCorrect /\ hasRemove)
              => /\ action = "REMOVE_STEP"
                 /\ ~router_return.none
                 /\ router_return.step_index \in Nat
           /\ (~hasCorrect /\ ~hasRemove)
              => /\ action = "ADD_STEP"
                 /\ router_return.none
           /\ ds_pc = "raised" => ds_calls["Sandbox"] = ds_calls["Router"] + 1

\* the Router returned CORRECT_STEP for a text that holds both keywords
C23_Witness ==
    /\ ds_calls["Router"] >= 1
    /\ HasKeyword(router_return.feedback, {"REMOVE"})
    /\ HasKeyword(router_return.feedback, {"CORRECT_STEP"})
    /\ action = "CORRECT_STEP"
    /\ ds_pc = "loop"

\* the last Planner operation was correct_step with this index
CorrectStepCalled == planner_op.op = "correct_step"

\* every step of plan_before is still at its position in current_plan,
\* except position i (0-based) where one is given
StepsKept(except) ==
    /\ Len(current_plan) >= Len(plan_before)
    /\ \A j \in 1..Len(plan_before) :
          (j - 1) \notin except => current_plan[j] = plan_before[j]

\* C24: correct_step called with an integer step_index outside
\* 0 .. len(plan)-1 does not fail and appends one new step, leaving every
\* existing step unchanged; called with an index inside 0 .. len(plan)-1 it
\* replaces the step at that position and nothing else
C24_OutOfRangeDegradesToAdd ==
    CorrectStepCalled
    => LET i == planner_op.step_index
           n == Len(plan_before)
       IN  /\ ~planner_op.raised
           /\ current_step = ds_calls["Planner"]
           /\ IF i \in 0..(n - 1)
              THEN /\ Len(current_plan) = n
                   /\ current_plan[i + 1] = current_step
                   /\ StepsKept({i})
              ELSE /\ current_plan = Append(plan_before, current_step)
                   /\ StepsKept({})

\* C25: a REMOVE_STEP decision is applied as ADD_STEP is: run calls
\* add_step, the plan is the plan before with one step appended, no step
\* was deleted or changed, and the appended step is the current step
C25_RemoveAppliedAsAdd ==
    action = "REMOVE_STEP"
    => /\ planner_op = PlannerOp("add_step", 0, FALSE)
       /\ Len(current_plan) = Len(plan_before) + 1
       /\ \A j \in 1..Len(plan_before) : current_plan[j] = plan_before[j]
       /\ current_plan[Len(current_plan)] = current_step
       /\ current_step \notin Range(plan_before)

\* a REMOVE_STEP decision was applied to a plan of two steps
C25_Witness ==
    /\ action = "REMOVE_STEP"
    /\ ds_pc = "loop"
    /\ Len(plan_before) = 2
    /\ Len(current_plan) = 3

\* C26: no Planner operation shrinks the plan: generate_initial_step on a
\* new Planner leaves a plan of length 1, generate_initial_step and
\* add_step (the operation of the ADD and REMOVE actions) append exactly
\* one step, correct_step with an index in 0 .. len-1 keeps the length, and
\* get_full_plan labels the steps with 0, 1, .., len-1 in the order of the
\* sequence
C26_PlanNeverShrinks ==
    LET n == Len(plan_before)
    IN  /\ Len(current_plan) >= n
        /\ (planner_op.op = "generate_initial_step" /\ n = 0)
           => Len(current_plan) = 1
        /\ planner_op.op \in {"generate_initial_step", "add_step"}
           => /\ Len(current_plan) = n + 1
              /\ \A j \in 1..n : current_plan[j] = plan_before[j]
        /\ (CorrectStepCalled /\ planner_op.step_index \in 0..(n - 1))
           => Len(current_plan) = n
        /\ planner_op.op = "get_full_plan"
           => /\ current_plan = plan_before
              /\ Len(accumulated_plan) = Len(current_plan)
              /\ \A j \in 1..Len(current_plan) :
                    accumulated_plan[j] = <<j - 1, current_plan[j]>>

\* a plan of three steps, the first of them corrected, has been rendered
C26_Witness ==
    /\ planner_op.op = "get_full_plan"
    /\ Len(current_plan) = 3
    /\ current_plan[1] > current_plan[3]
    /\ accumulated_plan[3][1] = 2

(***************************************************************************)
(* Properties of two interleaved sessions (specification SpecSessions).    *)
(***************************************************************************)
\* C27: two sessions run by two orchestrator instances do not affect each
\* other: the payload file an instance wrote in a round it has executed is
\* still that instance's file with that round's payload, whatever rounds
\* the other instance has executed since, and every child of an instance
\* ran a payload of that instance
C27_SessionsIsolated ==
    \A s \in Instances :
       \A k \in 1..sessions[s].iteration :
          /\ file_owner[script_path(k)] = s
          /\ files[script_path(k)] = sessions[s].payloads[k]
          /\ sessions[s].launched[k] = sessions[s].payloads[k]

(***************************************************************************)
(* Properties of run_refinement_loop: faults, the failure trace and the    *)
(* order of the collaborators (specification Spec).                        *)
(***************************************************************************)
\* C29: on exhaustion the instruction the failure trace shows as the final
\* prompt is the instruction the Drafter was sent in the last executed
\* round
C29_TraceShowsLastDrafterPrompt ==
    outcome = "EXHAUSTED" => failure_trace.prompt = drafter_args.prompt

\* C28: a Drafter, Critic or Strategist invocation that raises in round k
\* ends run_refinement_loop with that exception: no value is returned, no
\* terminal outcome and no failure trace is reported, and the raising
\* invocation is the last one (the Drafter has been invoked k times, and
\* the Critic and the Strategist k or k-1 times in the order of the round)
C28_CollaboratorFaultPropagates ==
    fault = "CollaboratorFault"
    => /\ pc = "raised"
       /\ outcome = "none"
       /\ retval = NoReturn
       /\ failure_trace = NoTrace
       /\ iteration >= 1
       /\ drafter_calls = iteration
       /\ critic_calls \in {iteration - 1, iteration}
       /\ strategist_calls \in {critic_calls - 1, critic_calls}
       /\ strategist_calls = iteration => critic_calls = iteration

\* the Strategist raised in round 2
C28_Witness ==
    /\ fault = "CollaboratorFault"
    /\ pc = "raised"
    /\ iteration = 2
    /\ strategist_calls = 2

\* C30: the rounds do not overlap and every round invokes its collaborators
\* in one order.  The Drafter of round k+1 is invoked only when the Critic
\* and the Strategist of round k have been invoked and have returned, with
\* the instruction the Strategist returned last (the caller's initial
\* instruction in round 1; the instruction changes only when the Strategist
\* returns); the Critic is invoked only after the Drafter of its round,
\* with the document that Drafter returned; the decision is taken only
\* after the Critic of the round; the Strategist is invoked only after a
\* decision to continue, never after a terminal outcome
C30_RoundsSequential ==
    [][/\ drafter_calls' # drafter_calls
          => /\ iteration' = iteration + 1
             /\ drafter_calls' = iteration'
             /\ critic_calls = iteration
             /\ strategist_calls = iteration
             /\ fault = "none" /\ outcome = "none"
             /\ drafter_args'.prompt = current_prompt
             /\ iteration = 0 => drafter_args'.prompt = INITIAL_PROMPT
       /\ critic_calls' # critic_calls
          => /\ critic_calls' = iteration
             /\ drafter_calls = iteration
             /\ strategist_calls = iteration - 1
             /\ fault = "none" /\ outcome = "none"
             /\ critic_args'.document = draft_document
             /\ UNCHANGED <<iteration, drafter_calls, strategist_calls>>
       /\ (outcome' # outcome /\ outcome' \in {"SUCCESS", "REJECTED"})
          => /\ critic_calls = iteration
             /\ strategist_calls = iteration - 1
             /\ UNCHANGED <<iteration, drafter_calls, critic_calls,
                            strategist_calls>>
       /\ strategist_calls' # strategist_calls
          => /\ strategist_calls' = iteration
             /\ drafter_calls = iteration
             /\ critic_calls = iteration
             /\ fault = "none" /\ outcome = "none"
             /\ scorecard = Parser(variant, full_review_response).scorecard
             /\ UNCHANGED <<iteration, drafter_calls, critic_calls>>
       /\ current_prompt' # current_prompt
          => /\ strategist_calls' = strategist_calls + 1
             /\ fault' = "none"
      ]_vars

\* the Drafter of round 3 has been sent an instruction of the Strategist
C30_Witness ==
    /\ pc = "audit"
    /\ iteration = 3
    /\ strategist_calls = 2
    /\ drafter_args.prompt \in Prompts
    /\ drafter_args.prompt = current_prompt

(***************************************************************************)
(* Properties of run_refinement_loop: defaults, the two variants, the zero *)
(* budget (specification Spec).                                            *)
(***************************************************************************)
\* the field map of the round has no Previous_Kill_List_Fixed key
FixedKeyMissing == <<KEY_FIXED>> \notin DOMAIN scorecard

\* the field map has the key with a str value that is not YES after
\* upper-casing
FixedValueNotYes ==
    /\ <<KEY_FIXED>> \in DOMAIN scorecard
    /\ scorecard[<<KEY_FIXED>>].type = "str"
    /\ UpperText(scorecard[<<KEY_FIXED>>].v) # <<"YES">>

\* the last Critic invocation returned its text (it did not raise)
CriticReturned == ~(fault = "CollaboratorFault" /\ strategist_calls < critic_calls)

\* C31: a decided round whose field map has no Previous_Kill_List_Fixed key
\* (empty map, or other keys only), or has it with a text other than YES
\* after upper-casing, is not a success round: with REJECTED in the critic
\* text the loop ends rejected, otherwise the round continues (no outcome
\* of this round, no fault of the decision, and the Strategist is the next
\* collaborator)
C31_MissingFieldNeverSucceeds ==
    (RoundDecided /\ CriticReturned
                  /\ scorecard = Parser(variant, full_review_response).scorecard
                  /\ (FixedKeyMissing \/ FixedValueNotYes))
    => /\ outcome # "SUCCESS"
       /\ fault \in {"none", "CollaboratorFault"}
       /\ IF ContainsRejected(full_review_response)
          THEN pc = "done" /\ outcome = "REJECTED"
          ELSE /\ outcome \in {"none", "EXHAUSTED"}
               /\ pc = "strategize" \/ strategist_calls >= critic_calls

\* a round with other keys only continues; so did a round before it whose
\* map was empty
C31_Witness ==
    /\ pc = "strategize"
    /\ iteration = 2
    /\ FixedKeyMissing
    /\ <<KEY_ADK>> \in DOMAIN scorecard
    /\ ~ContainsRejected(full_review_response)

(***************************************************************************)
(* Equivalence of the two parsers (specification SpecParse).               *)
(***************************************************************************)
\* C32: for every input text extract_scorecard and parse_scorecard return
\* the same field map and the same feedback text
C32_ParsersAgree ==
    (router_called /\ gemini_called)
    => /\ router_result.scorecard = gemini_result.scorecard
       /\ router_result.audit_report = gemini_result.audit_report

(***************************************************************************)
(* Equivalence of the two loops (specification Spec).                      *)
(***************************************************************************)
\* how the round of variant v ends on a critic text: the outcome, or
\* "continue" with the outstanding-issues text carried into the next round
RoundResultOf(v, text) ==
    LET r == Parser(v, text)
        value == FixedField(r.scorecard)
    IN  IF value.type # "str" THEN <<"raised", <<>>>>
        ELSE IF is_rejected(text) THEN <<"REJECTED", <<>>>>
        ELSE IF kill_list_fixed(value) = <<"YES">> THEN <<"SUCCESS", <<>>>>
        ELSE <<"continue", NextKillList(r.audit_report)>>

\* how the decided round of this session has ended
RoundResult ==
    IF fault = "AttributeError" THEN <<"raised", <<>>>>
    ELSE IF outcome \in {"SUCCESS", "REJECTED"} THEN <<outcome, <<>>>>
    ELSE <<"continue", previous_kill_list>>

OtherVariant == IF variant = "mock" THEN "live" ELSE "mock"

\* C33: fed the same critic texts and the same budget the two loops end in
\* the same round with the same outcome and carry the same
\* outstanding-issues text into each round: every decided round of a session
\* ends as the loop of the other variant ends a round on the same critic
\* text
C33_VariantsAgree ==
    (RoundDecided /\ CriticReturned)
    => RoundResult = RoundResultOf(OtherVariant, full_review_response)

(***************************************************************************)
(* Properties of DSStarOrchestrator.run: the current step, the verdict and *)
(* the last round (specification SpecDS).                                  *)
(***************************************************************************)
\* a round is in progress: the Coder has been invoked and the Router of the
\* round has not
InRound == ds_pc \in {"write", "launch", "verify", "route"}

\* C34: the current step handed to the Coder of a round is an element of
\* the plan, rendered in the accumulated plan handed over with it, and is
\* the entry added or corrected last: the initial step in round 1, the last
\* element after an ADD or REMOVE action, the element at the corrected
\* position after a CORRECT action
C34_CurrentStepInPlan ==
    InRound
    => LET step == coder_args.current_step
           rendered == coder_args.accumulated_plan
           n == Len(current_plan)
       IN  /\ step = current_step
           /\ step = ds_calls["Planner"]
           /\ \E j \in 1..n : current_plan[j] = step
           /\ rendered = accumulated_plan
           /\ Len(rendered) = n
           /\ \A j \in 1..n : rendered[j] = <<j - 1, current_plan[j]>>
           /\ ds_iteration = 1 => current_plan = <<step>>
           /\ (ds_iteration > 1 /\ action \in {"ADD_STEP", "REMOVE_STEP"})
              => current_plan[n] = step
           /\ (ds_iteration > 1 /\ action = "CORRECT_STEP")
              => /\ ~router_return.none
                 /\ current_plan[router_return.step_index + 1] = step

\* round 3 starts with the step a CORRECT action put in place of the first
\* of two steps
C34_Witness ==
    /\ ds_pc = "write"
    /\ ds_iteration = 3
    /\ action = "CORRECT_STEP"
    /\ Len(current_plan) = 2
    /\ current_plan[1] = coder_args.current_step

\* the Verifier of the current round has returned its text and the Router
\* of the round has not been invoked
VerdictGiven ==
    /\ ds_iteration > 0
    /\ ds_calls["Verifier"] = ds_iteration
    /\ ds_calls["Router"] = ds_iteration - 1

\* C39: whether a round ends the run with success depends on the verifier
\* text alone: with a text that signals sufficiency run returns True and
\* the Finalizer is invoked, also when the script execution of the round
\* failed or timed out; with any other text the round continues with the
\* Router, also when the execution succeeded
C39_VerdictAloneDecides ==
    VerdictGiven
    => /\ verifier_args.execution_success = execution_success
       /\ IF SignalsSufficiency(reasoning)
          THEN /\ ds_pc = "done"
               /\ ds_retval = "True"
               /\ ds_calls["Finalyzer"] = 1
          ELSE /\ ds_pc = "route"
               /\ ds_retval = "none"
               /\ ds_calls["Finalyzer"] = 0

\* run returned True in a round whose script timed out
C39_Witness ==
    /\ VerdictGiven
    /\ ds_retval = "True"
    /\ child.kind = "timeout"
    /\ ~execution_success
    /\ ds_calls["Finalyzer"] = 1


\* run has returned False
RunExhausted == ds_pc = "done" /\ ds_retval = "False"

\* C40: when run returns False the Router and the Planner were invoked in
\* every budgeted round, the last one included: the plan was mutated
\* exactly max_iterations times after the initial step, and the step the
\* last mutation produced is the current step, which is in the plan but
\* was never handed to the Coder (the Coder was invoked max_iterations
\* times, last with an older step) and whose round never wrote a script
C40_LastRoundStillRefines ==
    RunExhausted
    => /\ ds_iteration = ds_max_iterations
       /\ ds_calls["Router"] = ds_max_iterations
       /\ ds_calls["Planner"] = ds_max_iterations + 1
       /\ ds_calls["Coder"] = ds_max_iterations
       /\ Len(payloads) = ds_max_iterations
       /\ current_step = ds_calls["Planner"]
       /\ \E j \in 1..Len(current_plan) : current_plan[j] = current_step
       /\ coder_args.current_step # current_step
       /\ ds_max_iterations > 0
          => /\ coder_args.current_step = ds_max_iterations
             /\ planner_op.op # "none"
             /\ current_plan # plan_before
             /\ accumulated_plan = get_full_plan(plan_before)

\* a run of three rounds is exhausted after the Router of round 3 chose
\* CORRECT: the corrected first step is the current step
C40_Witness ==
    /\ RunExhausted
    /\ ds_max_iterations = 3
    /\ action = "CORRECT_STEP"
    /\ current_plan[1] = current_step
    /\ coder_args.current_step = 3


\* C38: with max_iterations = 0 run_refinement_loop invokes no collaborator
\* and raises nothing, and when it has ended its outcome is EXHAUSTED with
\* the return value False (live: (False, None))
C38_ZeroBudgetExhausts ==
    max_iterations = 0
    => /\ drafter_calls = 0
       /\ critic_calls = 0
       /\ strategist_calls = 0
       /\ pc # "raised"
       /\ fault = "none"
       /\ pc # "loop"
          => /\ pc = "done"
             /\ outcome = "EXHAUSTED"
             /\ retval = ReturnValue(variant, "EXHAUSTED", final_document)


(***************************************************************************)
(* Properties of call_gemini_with_retry (specifications SpecRetry and      *)
(* SpecRetryLive).                                                         *)
(***************************************************************************)
\* the attempts made so far, in order
Attempts == SelectSeq(events, LAMBDA e : e.ev = "attempt")

\* the call has returned or raised
RetryEnded == retry_pc \in {"done", "raised"}

\* with max_retries >= 1: every attempt but a last successful one has
\* failed, at most max_retries attempts are made, a returned value is the
\* non-empty text of the last attempt, and the call raises only after
\* max_retries failed attempts
RetryOutcomeSound ==
    max_retries >= 1
    => LET a == Attempts
           n == Len(a)
       IN  /\ n <= max_retries
           /\ \A i \in 1..n :
                 a[i].failed <=> ~(i = n /\ retry_result.kind = "returned")
           /\ \A i \in 1..n : a[i].failed <=> a[i].text = ""
           /\ retry_pc = "for" => n = attempt /\ retry_result = NoRetryResult
           /\ RetryEnded => n >= 1 /\ events[Len(events)] = a[n]
           /\ retry_result.kind = "returned"
              => retry_pc = "done" /\ retry_result.value = a[n].text
           /\ retry_result.kind = "raised"
              => /\ retry_pc = "raised"
                 /\ n = max_retries
                 /\ retry_result.attempts = max_retries
                 /\ retry_result.error = a[n].error
           /\ RetryEnded <=> retry_result.kind \in {"returned", "raised"}

\* C35: with max_retries >= 1 call_gemini_with_retry makes attempts until
\* the first one that yields a non-empty response text and returns that
\* text; an attempt that raises or yields an empty text counts as failed;
\* when all attempts fail it raises after exactly max_retries attempts;
\* once it has returned or raised no further attempt is made, and every
\* call does return or raise
C35_AttemptsUntilFirstResponse ==
    /\ []RetryOutcomeSound
    /\ [][RetryEnded => UNCHANGED retry_vars]_vars
    /\ <>RetryEnded

\* the third attempt of a call with max_retries = 3 succeeds after two
\* failed ones
C35_Witness ==
    /\ max_retries = 3
    /\ retry_result.kind = "returned"
    /\ Len(Attempts) = 3
    /\ Attempts[1].failed
    /\ Attempts[2].failed
    /\ retry_result.value = "text 2"

\* C36: call_gemini_with_retry sleeps only between consecutive attempts:
\* the i-th failed attempt, i = 1 .. max_retries - 1, is followed by a
\* sleep of initial_delay * 2^(i-1) seconds and then by the next attempt;
\* no sleep follows the last failed attempt or a successful attempt
C36_SleepsBetweenAttempts ==
    LET n == Len(events)
        AttemptsUpTo(k) ==
            Cardinality({j \in 1..k : events[j].ev = "attempt"})
    IN  /\ \A k \in 1..n :
              events[k].ev = "sleep"
              => /\ k > 1
                 /\ events[k - 1].ev = "attempt"
                 /\ events[k - 1].failed
                 /\ AttemptsUpTo(k) \in 1..(max_retries - 1)
                 /\ events[k].secs = initial_delay * 2^(AttemptsUpTo(k) - 1)
                 /\ k = n => retry_pc = "for"
                 /\ k < n => events[k + 1].ev = "attempt"
        /\ \A k \in 1..n :
              (events[k].ev = "attempt" /\ events[k].failed
               /\ AttemptsUpTo(k) < max_retries)
              => k < n /\ events[k + 1].ev = "sleep"
        /\ \A k \in 1..n :
              (events[k].ev = "attempt"
               /\ (~events[k].failed \/ AttemptsUpTo(k) >= max_retries))
              => k = n /\ RetryEnded

\* a call with initial_delay = 2 and max_retries = 3 fails three times:
\* it has slept 2 and then 4 seconds and raised without a third sleep
C36_Witness ==
    /\ initial_delay = 2
    /\ retry_result.kind = "raised"
    /\ Len(events) = 5
    /\ events[2].secs = 2
    /\ events[4].secs = 4

\* C37: for every max_retries >= 0 a call that ends either returns a
\* non-empty response text or raises
C37_ReturnsTextOrRaises ==
    RetryEnded
    => \/ retry_result.kind = "raised"
       \/ /\ retry_result.kind = "returned"
          /\ retry_result.value \in ResponseTexts \ {""}

====
